---- MODULE Spec2Model ----
(***************************************************************************)
(* emacs-extractor: the statement normalizer (transpiler.py) and the       *)
(* partial evaluator (partial_eval.py), with the driver loop of            *)
(* __init__.py.  The evaluator runs the normalized Python text with        *)
(* exec(code, self); the model executes it the way CPython does, as a      *)
(* stack machine: LOAD_CONST, LOAD_NAME (dict lookup, then __missing__),   *)
(* CALL, STORE_NAME (__setitem__), POP_TOP.                                *)
(***************************************************************************)
EXTENDS Integers, Sequences, FiniteSets, TLC

VARIABLES
    catalog,        \* the input: Fact Catalog, routines and configuration
    evaluated,      \* PartialEvaluator._evaluated
    pse,            \* PartialEvaluator._potential_side_effects: id(v) -> index
    dict,           \* the evaluator's own dict contents (it is the exec globals)
    local_variables,\* PartialEvaluator._local_variables
    extra_globals,  \* PartialEvaluator._extra_globals
    init_value,     \* LispVariable.init_value of every declared variable
    heap,           \* the objects alive in the interpreter, by id()
    stack,          \* the operand stack of the statement being executed
    status,         \* "idle" between routines, "exec" inside exec(), "error"
    replaces_stack, \* CTranspiler._replaces_stack
    transpiled,     \* extract(): the normalized lines of the routine being run
    code,           \* the instructions compiled from the lines being executed
    pc,             \* the next instruction of code
    initializations,\* extract(): the InitFunction list built so far
    budget,         \* how many more lines the normalizer may still hand over
    twin            \* a second run of the same pipeline on the same input

(***************************************************************************)
(* Bounds of the model.                                                    *)
(***************************************************************************)
MaxRoutines == 2
MaxStatements == 3
MaxN == 3
MaxI == 2
MaxRules == 2
\* the nested calls of transpile_to_python that fit under the recursion
\* limit of the interpreter
RecursionLimit == 3

(***************************************************************************)
(* Values.  A native literal, None, a reference to an object (by id), or a *)
(* callable.  k is the kind of a callable: which table its behaviour comes *)
(* from.                                                                   *)
(***************************************************************************)
Val(t, n, s, k) == [t |-> t, n |-> n, s |-> s, k |-> k]
IntV(n) == Val("int", n, "", "")
BoolV(b) == Val("bool", IF b THEN 1 ELSE 0, "", "")
FloatV(n) == Val("float", n, "", "")
StrV(s) == Val("str", 0, s, "")
NoneV == Val("none", 0, "", "")
Ref(id) == Val("ref", id, "", "")
Fn(kind, key) == Val("fn", 0, key, kind)
\* what dataclasses.asdict leaves of a nested dataclass (a new dict) or of a
\* nested list (a new list): a copy, with no identity of the original
CopyV == Val("copy", 0, "", "")

Obj(cls, name, args, local) == [cls |-> cls, name |-> name, args |-> args, local |-> local]

\* partial_eval.py:10-42, the @dataclass(eq=False) value classes
DataclassNames ==
    {"PELispVariable", "PECVariable", "PELispSymbol", "PELispForm",
     "PECFunctionCall", "PELispVariableAssignment", "PECVariableAssignment"}

\* dataclasses.is_dataclass(v) and not isinstance(v, type)
IsDataclass(h, v) == v.t = "ref" /\ v.n \in DOMAIN h /\ h[v.n].cls \in DataclassNames

IsList(h, v) == v.t = "ref" /\ v.n \in DOMAIN h /\ h[v.n].cls = "list"

IsInstance(h, v, cls) == v.t = "ref" /\ v.n \in DOMAIN h /\ h[v.n].cls = cls

(***************************************************************************)
(* The evaluator's tables (partial_eval.py:56-123, 184-197).               *)
(***************************************************************************)
PE_C_FUNCTIONS ==
    {"make_string", "make_vector", "make_float", "make_fixnum", "make_int",
     "make_symbol_constant", "make_symbol_special", "make_hash_table",
     "set_char_table_purpose", "set_char_table_defalt", "char_table_set_range",
     "decode_env_path", "malloc", "memset"}

PE_UTIL_FUNCTIONS ==
    {"make_pure_string", "build_pure_c_string", "build_unibyte_string",
     "build_string", "intern_c_string", "intern", "pure_cons", "pure_list",
     "list1", "list2", "list3", "list4", "listn", "nconc2",
     "make_pure_vector", "make_nil_vector", "ASET", "AREF", "CHAR_TABLE_SET"}

\* PartialEvaluator._globals, without lispsym (a list of symbol objects)
GlobalsKeys ==
    {"NULL", "ARRAYELTS", "sizeof", "c_pointer", "c_array", "CALLN", "CALLMANY"}

\* the names exec() still finds in builtins after __missing__ raised KeyError
Builtins == {"len"}

\* _watch_side_effects wraps what __missing__ returns for these kinds
Watched(f) == f.k \in {"lisp", "util", "cfn", "extra", "global"}

(***************************************************************************)
(* The state of one evaluator as a record, so that the operations below    *)
(* are functions from state to state.                                      *)
(***************************************************************************)
Cur ==
    [evaluated |-> evaluated, pse |-> pse, dict |-> dict,
     local_variables |-> local_variables, extra_globals |-> extra_globals,
     init_value |-> init_value, heap |-> heap, stack |-> stack,
     status |-> status]

Install(r) ==
    /\ evaluated' = r.evaluated
    /\ pse' = r.pse
    /\ dict' = r.dict
    /\ local_variables' = r.local_variables
    /\ extra_globals' = r.extra_globals
    /\ init_value' = r.init_value
    /\ heap' = r.heap
    /\ stack' = r.stack
    /\ status' = r.status

RECURSIVE RefsOf(_, _)
RefsOf(h, v) ==
    IF v.t # "ref" THEN {}
    ELSE {v.n} \cup UNION {RefsOf(h, h[v.n].args[i]) : i \in DOMAIN h[v.n].args}

\* the objects something still refers to: CPython frees every other object
\* at once (reference counting), and its address can be handed out again
Live(r) ==
    UNION ({RefsOf(r.heap, r.evaluated[i]) : i \in DOMAIN r.evaluated}
           \cup {RefsOf(r.heap, r.dict[k]) : k \in DOMAIN r.dict}
           \cup {RefsOf(r.heap, r.extra_globals[k]) : k \in DOMAIN r.extra_globals}
           \cup {RefsOf(r.heap, r.stack[i]) : i \in DOMAIN r.stack})

Gc(r) == [r EXCEPT !.heap = [i \in Live(r) |-> r.heap[i]]]

SetMin(S) == CHOOSE x \in S : \A y \in S : x <= y

(***************************************************************************)
(* id() of a new object is whatever address the allocator returns: any     *)
(* address no live object has.  The evaluator only ever compares ids with  *)
(* the keys of _potential_side_effects, so the choices that can differ in  *)
(* effect are: each key of the index whose object is dead, and one address *)
(* that is no key of the index (all of those behave alike).                *)
(***************************************************************************)
AllocChoices(r, taken) ==
    LET stale == (DOMAIN r.pse \ Live(r)) \ taken
        used == Live(r) \cup DOMAIN r.pse \cup taken
    IN stale \cup {SetMin((1..(Cardinality(used) + 1)) \ used)}

New(r, o, id) == [r EXCEPT !.heap = [i \in DOMAIN r.heap \cup {id} |-> IF i = id THEN o ELSE r.heap[i]]]


IdPairs(r) ==
    UNION {{<<a, b>> : b \in AllocChoices(r, {a})} : a \in AllocChoices(r, {})}

Res(st, r, v) == [st |-> st, r |-> r, v |-> v]
Ok(r, v) == Res("ok", r, v)
Raise(r) == Res("raise", r, NoneV)
Mk(r, o, id) == Ok(New(r, o, id), Ref(id))

PELispSymbol(name) == Obj("PELispSymbol", "", <<name>>, FALSE)
PELispVariable(lisp_name) == Obj("PELispVariable", lisp_name, <<>>, FALSE)
PECVariable(c_name, local) == Obj("PECVariable", c_name, <<>>, local)
PELispForm(function, arguments) == Obj("PELispForm", function, arguments, FALSE)
PECFunctionCall(c_name, arguments) == Obj("PECFunctionCall", c_name, arguments, FALSE)
PELispVariableAssignment(lisp_name, value) ==
    Obj("PELispVariableAssignment", lisp_name, <<value>>, FALSE)
PECVariableAssignment(c_name, value, local) ==
    Obj("PECVariableAssignment", c_name, <<value>>, local)
PyList(items) == Obj("list", "", items, FALSE)

(***************************************************************************)
(* The input: the Fact Catalog, the initialization calls of main with the  *)
(* source of their routines, and the per-routine configuration.            *)
(***************************************************************************)
\* SpecificConfig of a routine
SpecificConfig(extra, replaces) == [extra_globals |-> extra, transpile_replaces |-> replaces]

\* the catalog and configuration under which the evaluator's own behaviour
\* is explored: two routines, the first configured after extraction_config.py
BaseCatalog ==
    [constants |-> ("N" :> IntV(2)),
     lisp_symbols |-> ("Qnil" :> "nil" @@ "Qt" :> "t"),
     c_variables |-> {"gvar"},
     static_variables |-> {"svar"},
     lisp_functions |-> ("Ffoo" :> "foo" @@ "Fbar" :> "bar"),
     lisp_variables |->
        ("Vfoo" :> [lisp_name |-> "foo", lisp_type |-> "INT"] @@
         "Vbar" :> [lisp_name |-> "bar", lisp_type |-> "LISP"] @@
         "Vbl" :> [lisp_name |-> "bl", lisp_type |-> "BOOL"]),
     init_calls |-> [i \in 1..MaxRoutines |-> IF i = 1 THEN "syms_of_a" ELSE "syms_of_b"],
     init_functions |-> <<>>,
     ignored_functions |-> {},
     configs |->
        ("syms_of_a" :>
            SpecificConfig("stderr" :> NoneV @@
                           "emacs_strerror" :> Fn("extra", "emacs_strerror") @@
                           "XSYMBOL" :> Fn("extra", "XSYMBOL") @@
                           "allocate_kboard" :> Fn("extra", "allocate_kboard"),
                           <<>>))]

\* extract(): local_config.extra_globals if local_config else {}
ExtraGlobalsOf(routine) ==
    IF routine \in DOMAIN catalog.configs THEN catalog.configs[routine].extra_globals
    ELSE <<>>

\* CTranspiler.ignored_patterns.get(named_function, [])
ReplacesOf(routine) ==
    IF routine \in DOMAIN catalog.configs THEN catalog.configs[routine].transpile_replaces
    ELSE <<>>

(***************************************************************************)
(* Side-effect bookkeeping.                                                *)
(***************************************************************************)
Restrict(f, S) == [x \in S |-> f[x]]

\* an index keyed by the fields of the value: every slot holding a value
\* with the fields of v is emptied
RemoveSideEffectsByValue(r, v) ==
    IF ~IsDataclass(r.heap, v) THEN r
    ELSE LET same == {i \in DOMAIN r.evaluated :
                         /\ IsDataclass(r.heap, r.evaluated[i])
                         /\ r.heap[r.evaluated[i].n] = r.heap[v.n]}
         IN [r EXCEPT !.evaluated = [i \in DOMAIN r.evaluated |->
                                        IF i \in same THEN NoneV ELSE r.evaluated[i]],
                      !.pse = Restrict(r.pse, {k \in DOMAIN r.pse : r.pse[k] \notin same})]

\* the index entry is removed and the slot keeps its value
RemoveSideEffectsKeepSlot(r, v) ==
    IF ~IsDataclass(r.heap, v) THEN r
    ELSE [r EXCEPT !.pse = Restrict(r.pse, DOMAIN r.pse \ {v.n})]

\* the slot is emptied and the index entry stays
RemoveSideEffectsKeepKey(r, v) ==
    IF ~IsDataclass(r.heap, v) THEN r
    ELSE IF v.n \in DOMAIN r.pse
         THEN [r EXCEPT !.evaluated[r.pse[v.n]] = NoneV]
         ELSE r

RemoveSideEffects(r, v) ==
    IF ~IsDataclass(r.heap, v) THEN r
    ELSE IF v.n \in DOMAIN r.pse
         THEN [r EXCEPT !.evaluated[r.pse[v.n]] = NoneV,
                        !.pse = Restrict(r.pse, DOMAIN r.pse \ {v.n})]
         ELSE r

\* dataclasses.asdict recurses: a nested dataclass comes back as a dict and a
\* nested list as a new list, so no field of the result is the object itself
AsdictInner(h, v) == IF v.t = "ref" THEN CopyV ELSE v

\* the children _walk_remove_side_effect visits: the items of a field that
\* asdict returned as a list; a field that is no list is skipped, since after
\* asdict it is no dataclass either
AsdictChildren(h, v) ==
    LET o == h[v.n]
    IN IF o.cls \in {"PELispForm", "PECFunctionCall"}
       THEN [i \in DOMAIN o.args |-> AsdictInner(h, o.args[i])]
       ELSE IF o.args # <<>> /\ IsList(h, o.args[1])
            THEN [i \in DOMAIN h[o.args[1].n].args |-> AsdictInner(h, h[o.args[1].n].args[i])]
            ELSE <<>>

RECURSIVE RemoveAll(_, _)
RemoveAll(r, children) ==
    IF children = <<>> THEN r
    ELSE RemoveAll(RemoveSideEffects(r, Head(children)), Tail(children))

WalkRemoveSideEffect(r, v) ==
    IF ~IsDataclass(r.heap, v) THEN r
    ELSE RemoveSideEffects(RemoveAll(r, AsdictChildren(r.heap, v)), v)

RECURSIVE WalkRemoveArgs(_, _)
WalkRemoveArgs(r, args) ==
    IF args = <<>> THEN r
    ELSE WalkRemoveArgs(WalkRemoveSideEffect(r, Head(args)), Tail(args))


(***************************************************************************)
(* Calls.  ids = <<a, b>>: the addresses of the (at most two) objects a    *)
(* call constructs.                                                        *)
(***************************************************************************)
Append1(r, v) == Ok([r EXCEPT !.evaluated = Append(r.evaluated, v)], v)

\* len(x) of a str or a list; anything else the model holds has no len()
PyLen(h, v) ==
    IF v.t = "str" THEN IntV(Len(v.s))
    ELSE IF IsList(h, v) THEN IntV(Len(h[v.n].args))
    ELSE NoneV

\* PE_UTIL_FUNCTIONS[key](*args); the model's strings are ASCII, so the
\* length of s.encode() is the length of s
Rewrite(r, key, args, ids) ==
    LET n == Len(args)
        form(f, a) == Mk(r, PELispForm(f, a), ids[1])
        call(f, a) == Mk(r, PECFunctionCall(f, a), ids[1])
    IN CASE key = "make_pure_string" ->
              IF n = 4 THEN call("make_string", <<args[1], args[2]>>) ELSE Raise(r)
         [] key \in {"build_pure_c_string", "build_string"} ->
              IF n = 1 /\ args[1].t = "str"
              THEN call("make_string", <<args[1], IntV(Len(args[1].s))>>) ELSE Raise(r)
         [] key = "build_unibyte_string" ->
              IF n = 1 /\ PyLen(r.heap, args[1]) # NoneV
              THEN call("make_string", <<args[1], PyLen(r.heap, args[1])>>) ELSE Raise(r)
         [] key \in {"intern_c_string", "intern"} ->
              IF n = 1 THEN Mk(r, PELispSymbol(args[1]), ids[1]) ELSE Raise(r)
         [] key = "pure_cons" -> IF n = 2 THEN form("cons", args) ELSE Raise(r)
         [] key = "pure_list" -> form("list", args)
         [] key = "list1" -> IF n = 1 THEN form("list", args) ELSE Raise(r)
         [] key = "list2" -> IF n = 2 THEN form("list", args) ELSE Raise(r)
         [] key = "list3" -> IF n = 3 THEN form("list", args) ELSE Raise(r)
         [] key = "list4" -> IF n = 4 THEN form("list", args) ELSE Raise(r)
         [] key = "listn" -> IF n >= 1 THEN form("list", Tail(args)) ELSE Raise(r)
         [] key = "nconc2" -> IF n = 2 THEN form("nconc", args) ELSE Raise(r)
         [] key \in {"make_pure_vector", "make_nil_vector"} ->
              IF n # 1 THEN Raise(r)
              ELSE LET sym == Mk(r, PELispSymbol(StrV("nil")), ids[2])
                   IN IF sym.st # "ok" THEN sym
                      ELSE Mk(sym.r, PECFunctionCall("make_vector", <<args[1], sym.v>>), ids[1])
         [] key = "ASET" -> IF n = 3 THEN form("aset", args) ELSE Raise(r)
         [] key = "AREF" -> IF n = 2 THEN form("aref", args) ELSE Raise(r)
         [] key = "CHAR_TABLE_SET" ->
              IF n = 3 THEN call("char_table_set", args) ELSE Raise(r)
         [] OTHER -> Raise(r)

\* the callables the configuration injects (extraction_config.py)
ExtraCall(r, key, args, ids) ==
    CASE key = "emacs_strerror" -> IF Len(args) = 1 THEN Ok(r, NoneV) ELSE Raise(r)
      [] key = "XSYMBOL" -> IF Len(args) = 1 THEN Ok(r, args[1]) ELSE Raise(r)
      [] key = "allocate_kboard" ->
           IF Len(args) = 1 THEN Mk(r, PECFunctionCall("allocate_kboard", args), ids[1])
           ELSE Raise(r)
      [] OTHER -> Raise(r)

\* c_array: [initializer[i] if initializer and len(initializer) > i else None
\*           for i in range(length)]
CArray(r, args, ids) ==
    IF Len(args) # 2 \/ args[1].t # "int" \/ args[1].n < 0 THEN Raise(r)
    ELSE IF args[2] # NoneV /\ ~IsList(r.heap, args[2]) THEN Raise(r)
    ELSE LET init == IF args[2] = NoneV THEN <<>> ELSE r.heap[args[2].n].args
         IN Mk(r, PyList([i \in 1..args[1].n |->
                            IF Len(init) >= i THEN init[i] ELSE NoneV]), ids[1])

RECURSIVE Invoke(_, _, _, _)

\* the function a callable value stands for, applied to args
Underlying(r, f, args, ids) ==
    CASE f.k = "lisp" -> Mk(r, PELispForm(catalog.lisp_functions[f.s], args), ids[1])
      [] f.k = "cfn" -> Mk(r, PECFunctionCall(f.s, args), ids[1])
      [] f.k = "void" -> IF Len(args) = 1 THEN Ok(r, NoneV) ELSE Raise(r)
      [] f.k = "util" -> Rewrite(r, f.s, args, ids)
      [] f.k = "extra" -> ExtraCall(r, f.s, args, ids)
      [] f.k = "builtin" ->
           IF f.s = "len" /\ Len(args) = 1 /\ PyLen(r.heap, args[1]) # NoneV
           THEN Ok(r, PyLen(r.heap, args[1]))
           ELSE Raise(r)
      [] f.k = "global" ->
           CASE f.s = "ARRAYELTS" ->
                  IF Len(args) = 1 /\ PyLen(r.heap, args[1]) # NoneV
                  THEN Ok(r, PyLen(r.heap, args[1])) ELSE Raise(r)
             [] f.s = "sizeof" ->
                  IF Len(args) = 1 THEN Mk(r, PECFunctionCall("sizeof", args), ids[1])
                  ELSE Raise(r)
             [] f.s = "c_pointer" -> IF Len(args) = 2 THEN Ok(r, args[2]) ELSE Raise(r)
             [] f.s = "c_array" -> CArray(r, args, ids)
             [] f.s = "CALLN" ->
                  IF Len(args) >= 1 THEN Invoke(r, args[1], Tail(args), ids) ELSE Raise(r)
             [] f.s = "CALLMANY" ->
                  IF Len(args) = 2 /\ IsList(r.heap, args[2])
                  THEN Invoke(r, args[1], r.heap[args[2].n].args, ids) ELSE Raise(r)
             [] OTHER -> Raise(r)
      [] OTHER -> Raise(r)

\* _watch_side_effects(v).wrapper(*args)
Wrapper(r, f, args, ids) ==
    LET u == Underlying(r, f, args, ids)
        r1 == WalkRemoveArgs(u.r, args)
    IN IF u.st # "ok" THEN u
       ELSE IF IsDataclass(r1.heap, u.v) /\ u.v.n \notin DOMAIN r1.pse
            THEN LET a == Append1(r1, u.v)
                 IN IF a.st # "ok" THEN a
                    ELSE Ok([a.r EXCEPT !.pse =
                               [x \in DOMAIN r1.pse \cup {u.v.n} |->
                                  IF x = u.v.n THEN Len(a.r.evaluated) ELSE r1.pse[x]]],
                            u.v)
            ELSE Ok(r1, u.v)

\* f(*args) for a value f taken from the stack or from an argument list
Invoke(r, f, args, ids) ==
    IF f.t # "fn" THEN Raise(r)
    ELSE IF Watched(f) THEN Wrapper(r, f, args, ids)
    ELSE Underlying(r, f, args, ids)


(***************************************************************************)
(* Name resolution and assignment.                                         *)
(***************************************************************************)
\* `key in self._current.constants`: a str looked up in a list of CConstant
\* records, which never compares equal to one of them
InCurrentConstants(key) == FALSE

\* PartialEvaluator.__missing__(key)
Missing(r, key, id) ==
    IF key \in DOMAIN catalog.constants THEN Ok(r, catalog.constants[key])
    ELSE IF InCurrentConstants(key) THEN Raise(r)
    ELSE IF key \in DOMAIN catalog.lisp_symbols
         THEN Mk(r, PELispSymbol(StrV(catalog.lisp_symbols[key])), id)
    ELSE IF key \in catalog.c_variables THEN Mk(r, PECVariable(key, FALSE), id)
    ELSE IF key \in DOMAIN catalog.lisp_functions THEN Ok(r, Fn("lisp", key))
    ELSE IF key = "void" THEN Ok(r, Fn("void", key))
    ELSE IF key \in PE_UTIL_FUNCTIONS THEN Ok(r, Fn("util", key))
    ELSE IF key \in PE_C_FUNCTIONS THEN Ok(r, Fn("cfn", key))
    ELSE IF key \in DOMAIN catalog.lisp_variables
         THEN LET v == catalog.lisp_variables[key]
              IN IF v.lisp_type = "BOOL" THEN Ok(r, BoolV(FALSE))
                 ELSE IF v.lisp_type = "INT" THEN Ok(r, IntV(0))
                 ELSE Mk(r, PELispVariable(v.lisp_name), id)
    ELSE IF key \in DOMAIN r.extra_globals THEN Ok(r, r.extra_globals[key])
    ELSE IF key \in GlobalsKeys
         THEN Ok(r, IF key = "NULL" THEN IntV(0) ELSE Fn("global", key))
    ELSE Raise(r)

\* the injected names are tried before every other stage
LookupNameExtraFirst(r, key, id) ==
    IF key \in DOMAIN r.dict THEN Ok(r, r.dict[key])
    ELSE IF key \in DOMAIN r.extra_globals THEN Ok(r, r.extra_globals[key])
    ELSE Missing(r, key, id)

\* LOAD_NAME on the evaluator used as the exec namespace: the dict entry,
\* else __missing__, else (after its KeyError) the builtins, else NameError
LookupName(r, key, id) ==
    IF key \in DOMAIN r.dict THEN Ok(r, r.dict[key])
    ELSE LET m == Missing(r, key, id)
         IN IF m.st # "raise" THEN m
            ELSE IF key \in Builtins THEN Ok(r, Fn("builtin", key))
            ELSE m

\* PartialEvaluator._to_simple(v): <<value, is_simple>>
ToSimple(h, v) ==
    LET w == IF IsInstance(h, v, "PELispSymbol")
             THEN IF h[v.n].args[1] = StrV("t") THEN BoolV(TRUE)
                  ELSE IF h[v.n].args[1] = StrV("nil") THEN BoolV(FALSE)
                  ELSE v
             ELSE v
    IN <<w, w.t \in {"int", "float", "bool"}>>

\* the default is written whenever the value is simple
FoldsAlways(r, key, value) == ToSimple(r.heap, value)[2]

\* __setitem__: `var.init_value is None` and the value is simple
FoldsToDefault(r, key, value) ==
    r.init_value[key] = NoneV /\ ToSimple(r.heap, value)[2]

PutItem(d, key, v) == [k \in DOMAIN d \cup {key} |-> IF k = key THEN v ELSE d[k]]

\* append a new node to _evaluated and bind key to a new reference object
EmitAndRecord(r, key, node, recorded, ids) ==
    LET n == Mk(r, node, ids[1])
        a == IF n.st # "ok" THEN n ELSE Append1(n.r, n.v)
        c == IF a.st # "ok" THEN a ELSE Mk(a.r, recorded, ids[2])
    IN IF c.st # "ok" THEN c
       ELSE Ok([c.r EXCEPT !.dict = PutItem(c.r.dict, key, c.v)], NoneV)

\* every local assignment leaves a node
EmitsLocalAlways(r, value) == TRUE

\* __setitem__, last branch: `is_dataclass(value) and not isinstance(value,
\* PELispSymbol)`
EmitsLocal(r, value) ==
    IsDataclass(r.heap, value) /\ ~IsInstance(r.heap, value, "PELispSymbol")

\* PartialEvaluator.__setitem__(key, value)
SetItem(r0, key, value, ids) ==
    LET r == WalkRemoveSideEffect(r0, value)
    IN IF key \in DOMAIN catalog.lisp_variables
       THEN LET var == catalog.lisp_variables[key]
                simple == ToSimple(r.heap, value)
            IN IF FoldsToDefault(r, key, value)
               THEN LET c == Mk([r EXCEPT !.init_value[key] = simple[1]],
                                PELispVariable(var.lisp_name), ids[1])
                    IN IF c.st # "ok" THEN c
                       ELSE Ok([c.r EXCEPT !.dict = PutItem(c.r.dict, key, c.v)], NoneV)
               ELSE EmitAndRecord(r, key,
                                  PELispVariableAssignment(var.lisp_name, value),
                                  PELispVariable(var.lisp_name), ids)
       ELSE IF key \in catalog.c_variables
       THEN EmitAndRecord(r, key, PECVariableAssignment(key, value, FALSE),
                          PECVariable(key, FALSE), ids)
       ELSE LET rl == [r EXCEPT !.local_variables = @ \cup {key}]
            IN IF EmitsLocal(r, value)
               THEN EmitAndRecord(rl, key, PECVariableAssignment(key, value, TRUE),
                                  PECVariable(key, TRUE), ids)
               ELSE Ok([rl EXCEPT !.dict = PutItem(rl.dict, key, value)], NoneV)

(***************************************************************************)
(* The end of a routine: evaluate()'s filter and extract()'s.              *)
(***************************************************************************)
\* PartialEvaluator._pe_constant(statement)
PeConstant(h, s) ==
    IsInstance(h, s, "PECVariableAssignment") /\ h[s.n].local
        /\ ~IsDataclass(h, h[s.n].args[1])

\* __init__.py meaningful(statement); isinstance(x, int) holds of a bool too
Meaningful(h, s) ==
    IF IsInstance(h, s, "PECVariableAssignment")
    THEN ~(h[s.n].args[1].t \in {"int", "bool"} /\ h[s.n].local)
    ELSE TRUE

\* a value as the emitter sees it: the tree under it, with no identities
RECURSIVE Tree(_, _)
Tree(h, v) ==
    IF v.t # "ref" THEN [cls |-> "literal", name |-> "", local |-> FALSE, lit |-> v, args |-> <<>>]
    ELSE [cls |-> h[v.n].cls, name |-> h[v.n].name, local |-> h[v.n].local, lit |-> NoneV,
          args |-> [i \in DOMAIN h[v.n].args |-> Tree(h, h[v.n].args[i])]]

\* the entries that are kept, the later ones first
RECURSIVE RetainedReversed(_, _)
RetainedReversed(h, ev) ==
    IF ev = <<>> THEN <<>>
    ELSE LET s == Head(ev)
         IN IF s # NoneV /\ ~PeConstant(h, s) /\ Meaningful(h, s)
            THEN RetainedReversed(h, Tail(ev)) \o <<s>>
            ELSE RetainedReversed(h, Tail(ev))

RECURSIVE Retained(_, _)
Retained(h, ev) ==
    IF ev = <<>> THEN <<>>
    ELSE LET s == Head(ev)
         IN IF s # NoneV /\ ~PeConstant(h, s) /\ Meaningful(h, s)
            THEN <<s>> \o Retained(h, Tail(ev))
            ELSE Retained(h, Tail(ev))

\* the statements list of the InitFunction extract() appends
Statements(r) ==
    LET kept == Retained(r.heap, r.evaluated)
    IN [i \in DOMAIN kept |-> Tree(r.heap, kept[i])]

\* the bindings of the routine before stay
ResetKeepingBindings(r, extra) ==
    Gc([r EXCEPT !.extra_globals = extra, !.local_variables = {},
                 !.evaluated = <<>>, !.pse = <<>>, !.stack = <<>>, !.status = "exec"])

\* PartialEvaluator.reset(current, extra)
Reset(r, extra) ==
    Gc([r EXCEPT !.dict = <<>>, !.extra_globals = extra, !.local_variables = {},
                 !.evaluated = <<>>, !.pse = <<>>, !.stack = <<>>, !.status = "exec"])


(***************************************************************************)
(* The normalized code is Python text; a line is its indentation and its   *)
(* tokens.  exec() compiles the text to instructions for CPython's stack   *)
(* machine: the operators below are that compilation for the subset of     *)
(* Python the normalizer emits.                                            *)
(***************************************************************************)
Line(indent, toks) == [indent |-> indent, toks |-> toks]
Instr(op, arg, n, v) == [op |-> op, arg |-> arg, n |-> n, v |-> v]

Literals ==
    "0" :> IntV(0) @@ "1" :> IntV(1) @@ "2" :> IntV(2) @@ "3" :> IntV(3) @@
    "4" :> IntV(4) @@ "5" :> IntV(5) @@ "6" :> IntV(6) @@ "42" :> IntV(42) @@ "1.5" :> FloatV(15) @@ "\"s\"" :> StrV("s") @@
    "\"&\"" :> StrV("&") @@ "None" :> NoneV @@ "True" :> BoolV(TRUE) @@
    "False" :> BoolV(FALSE)

Openers == {"(", "["}
Closers == {")", "]"}
BinaryOps == {"<", "+", "-", "*"}

\* the bracket depth at which token i stands
Depth(toks, i) ==
    Cardinality({j \in 1..(i - 1) : toks[j] \in Openers})
        - Cardinality({j \in 1..(i - 1) : toks[j] \in Closers})

\* the binary operators of ops outside every bracket
TopLevel(toks, ops) ==
    {i \in 2..(Len(toks) - 1) :
        /\ toks[i] \in ops
        /\ Depth(toks, i) = 0
        /\ toks[i - 1] \notin BinaryOps \cup Openers \cup {","}}

SetMax(S) == CHOOSE x \in S : \A y \in S : x >= y

\* the opener the last token closes
MatchOpen(toks) ==
    SetMax({p \in 1..(Len(toks) - 1) : toks[p] \in Openers /\ Depth(toks, p) = 0})

\* the pieces between the commas outside every bracket; a trailing comma
\* adds no piece
RECURSIVE SplitCommas(_)
SplitCommas(toks) ==
    IF toks = <<>> THEN <<>>
    ELSE LET cs == {i \in 1..Len(toks) : toks[i] = "," /\ Depth(toks, i) = 0}
         IN IF cs = {} THEN <<toks>>
            ELSE <<SubSeq(toks, 1, SetMin(cs) - 1)>>
                    \o SplitCommas(SubSeq(toks, SetMin(cs) + 1, Len(toks)))

RECURSIVE CodeOf(_)
RECURSIVE CodeOfAll(_)
CodeOfAll(pieces) ==
    IF pieces = <<>> THEN <<>> ELSE CodeOf(Head(pieces)) \o CodeOfAll(Tail(pieces))

\* an expression, by precedence: comparison, then + and -, then *, then
\* call and subscript, then the atoms
CodeOf(toks) ==
    LET n == Len(toks)
        split(i) == CodeOf(SubSeq(toks, 1, i - 1)) \o CodeOf(SubSeq(toks, i + 1, n))
                       \o <<Instr("binop", toks[i], 0, NoneV)>>
    IN IF n = 0 THEN <<Instr("syntax_error", "", 0, NoneV)>>
       ELSE IF n = 1
       THEN IF toks[1] \in DOMAIN Literals
            THEN <<Instr("const", toks[1], 0, Literals[toks[1]])>>
            ELSE <<Instr("name", toks[1], 0, NoneV)>>
       ELSE IF TopLevel(toks, {"<"}) # {} THEN split(SetMax(TopLevel(toks, {"<"})))
       ELSE IF TopLevel(toks, {"+", "-"}) # {} THEN split(SetMax(TopLevel(toks, {"+", "-"})))
       ELSE IF TopLevel(toks, {"*"}) # {} THEN split(SetMax(TopLevel(toks, {"*"})))
       ELSE IF toks[n] \in Closers
       THEN LET p == MatchOpen(toks)
                inner == SubSeq(toks, p + 1, n - 1)
            IN IF toks[n] = ")" /\ p = 1 THEN CodeOf(inner)
               ELSE IF toks[n] = ")"
               THEN CodeOf(SubSeq(toks, 1, p - 1)) \o CodeOfAll(SplitCommas(inner))
                       \o <<Instr("call", "", Len(SplitCommas(inner)), NoneV)>>
               ELSE IF p > 1
               THEN CodeOf(SubSeq(toks, 1, p - 1)) \o CodeOf(inner)
                       \o <<Instr("subscr", "", 0, NoneV)>>
               ELSE CodeOfAll(SplitCommas(inner))
                       \o <<Instr("list", "", Len(SplitCommas(inner)), NoneV)>>
       ELSE <<Instr("syntax_error", "", 0, NoneV)>>

\* one simple statement
CompileStmt(toks) ==
    LET n == Len(toks)
        eqs == {i \in 1..n : toks[i] = "=" /\ Depth(toks, i) = 0}
        augs == {i \in 1..n : toks[i] \in {"+=", "-="} /\ Depth(toks, i) = 0}
    IN IF eqs # {}
       THEN LET i == SetMin(eqs)
                rhs == CodeOf(SubSeq(toks, i + 1, n))
            IN IF i = 2 THEN rhs \o <<Instr("store", toks[1], 0, NoneV)>>
               ELSE IF toks[i - 1] = "]"
               THEN LET tgt == SubSeq(toks, 1, i - 1)
                        p == MatchOpen(tgt)
                    IN rhs \o CodeOf(SubSeq(tgt, 1, p - 1))
                           \o CodeOf(SubSeq(tgt, p + 1, i - 2))
                           \o <<Instr("store_subscr", "", 0, NoneV)>>
               ELSE <<Instr("syntax_error", "", 0, NoneV)>>
       ELSE IF augs # {}
       THEN IF augs = {2}
            THEN <<Instr("name", toks[1], 0, NoneV)>> \o CodeOf(SubSeq(toks, 3, n))
                    \o <<Instr("binop", IF toks[2] = "+=" THEN "+" ELSE "-", 0, NoneV),
                         Instr("store", toks[1], 0, NoneV)>>
            ELSE <<Instr("syntax_error", "", 0, NoneV)>>
       ELSE CodeOf(toks) \o <<Instr("pop", "", 0, NoneV)>>

\* how many of the lines after the first are indented deeper than it
RECURSIVE Deeper(_, _)
Deeper(ls, indent) ==
    IF ls = <<>> \/ Head(ls).indent <= indent THEN 0
    ELSE 1 + Deeper(Tail(ls), indent)

\* a block of lines; a while header takes the deeper lines after it as its
\* body; jumps are relative to the jumping instruction
\* the tokenizer drops blank lines and comments before any indentation counts
IsCode(line) == line.toks # <<>> /\ line.toks[1] \notin {"#", "###"}

RECURSIVE CompileBlock(_)
CompileBlock(ls) ==
    IF ls = <<>> THEN <<>>
    ELSE LET h == Head(ls)
         IN IF h.toks # <<>> /\ h.toks[1] = "while"
            THEN LET k == Deeper(Tail(ls), h.indent)
                     body == CompileBlock(SubSeq(ls, 2, k + 1))
                     cond == CodeOf(SubSeq(h.toks, 2, Len(h.toks) - 1))
                 IN (IF k = 0 THEN <<Instr("syntax_error", "", 0, NoneV)>> ELSE <<>>)
                    \o cond \o <<Instr("jf", "", Len(body) + 2, NoneV)>> \o body
                    \o <<Instr("jmp", "", 0 - (Len(body) + Len(cond) + 1), NoneV)>>
                    \o CompileBlock(SubSeq(ls, k + 2, Len(ls)))
            ELSE CompileStmt(h.toks) \o CompileBlock(Tail(ls))

\* the pieces of a text between its newlines
RECURSIVE SplitLines(_)
SplitLines(toks) ==
    LET ns == {i \in DOMAIN toks : toks[i] = "\n"}
    IN IF ns = {} THEN <<toks>>
       ELSE <<SubSeq(toks, 1, SetMin(ns) - 1)>>
               \o SplitLines(SubSeq(toks, SetMin(ns) + 1, Len(toks)))

\* how many indentation units a piece starts with
RECURSIVE Pads(_)
Pads(toks) == IF toks # <<>> /\ Head(toks) = "    " THEN 1 + Pads(Tail(toks)) ELSE 0

\* the physical lines of a result list: an element may hold several lines,
\* each indented as the element is and by the units it starts with
RECURSIVE Physical(_)
Physical(lines) ==
    IF lines = <<>> THEN <<>>
    ELSE LET pieces == SplitLines(Head(lines).toks)
         IN [i \in DOMAIN pieces |->
                Line(Head(lines).indent + 4 * Pads(pieces[i]),
                     SubSeq(pieces[i], Pads(pieces[i]) + 1, Len(pieces[i])))]
               \o Physical(Tail(lines))

\* '\n'.join(transpiled): the physical lines, each after its indentation
RECURSIVE TextOf(_)
TextOf(lines) ==
    LET ph == Physical(lines)
        first == [i \in 1..(ph[1].indent \div 4) |-> "    "] \o ph[1].toks
    IN IF ph = <<>> THEN <<>>
       ELSE IF Len(ph) = 1 THEN first
       ELSE first \o <<"\n">> \o TextOf(Tail(ph))

\* IndentationError: the first statement is indented, a line is deeper than
\* the simple statement before it, or a line after a loop body stands at
\* no enclosing level
RECURSIVE Misindented(_)
Misindented(ls) ==
    IF ls = <<>> THEN FALSE
    ELSE LET h == Head(ls)
             k == IF h.toks[1] = "while" THEN Deeper(Tail(ls), h.indent) ELSE 0
             rest == SubSeq(ls, k + 2, Len(ls))
         IN \/ rest # <<>> /\ Head(rest).indent # h.indent
            \/ Misindented(SubSeq(ls, 2, k + 1))
            \/ Misindented(rest)

\* the instructions of a normalized text
Compile(lines) ==
    LET ls == SelectSeq(Physical(lines), IsCode)
    IN IF (ls # <<>> /\ Head(ls).indent # 0) \/ Misindented(ls)
       THEN <<Instr("syntax_error", "", 0, NoneV)>>
       ELSE CompileBlock(ls)

\* exec() refuses the whole text when a line of it is no Python
SyntaxOk(c) == \A i \in DOMAIN c : c[i].op # "syntax_error"

(***************************************************************************)
(* The normalizer, CTranspiler.  A node of the C syntax tree is its type,  *)
(* its text when it is a leaf, and its children; the fields of a node are  *)
(* children at fixed positions:                                            *)
(*   update_expression      <<operand or operator, operator or operand>>   *)
(*   assignment_expression  <<left, operator, right>>                      *)
(*   binary_expression      <<left, operator, right>>                      *)
(*   unary_expression       <<operator, argument>>                         *)
(*   init_declarator        <<declarator, "=", value>>                     *)
(*   array_declarator       <<declarator, "[", size, "]">>                 *)
(*   declaration            <<type, declarator, ";">>                      *)
(*   expression_statement   <<expression, ";">>                            *)
(*   while_statement        <<condition, body>>                            *)
(*   for_statement          <<initializer, condition, update, body>>       *)
(*   function_definition    <<declarator, body>>                           *)
(* with NoNode for a field the source leaves out.  Text is a sequence of   *)
(* tokens.                                                                 *)
(***************************************************************************)
NoNode == [type |-> "none", text |-> "", kids |-> <<>>]
Leaf(type, text) == [type |-> type, text |-> text, kids |-> <<>>]
Node(type, kids) == [type |-> type, text |-> "", kids |-> kids]
Tok(text) == Leaf(text, text)

\* what transpiling an expression yields: its text, the lines it appended
\* to _result_stack[-1], and whether it finished without an exception
Out(text, lines, ok) == [text |-> text, lines |-> lines, ok |-> ok]

\* an override rule: re.compile(pattern) and the substitute, or None
Rule(pattern, sub, delete) == [pattern |-> pattern, sub |-> sub, delete |-> delete]

\* the positions at which pattern occurs in value
Matches(pattern, value) ==
    {i \in 1..(Len(value) - Len(pattern) + 1) :
        SubSeq(value, i, i + Len(pattern) - 1) = pattern}

\* r.sub(sub, value): every occurrence, left to right, none overlapping
RECURSIVE Sub(_, _, _)
Sub(pattern, sub, value) ==
    IF Matches(pattern, value) = {} THEN value
    ELSE LET i == SetMin(Matches(pattern, value))
         IN SubSeq(value, 1, i - 1) \o sub
               \o Sub(pattern, sub, SubSeq(value, i + Len(pattern), Len(value)))

\* every matching rule is applied, each to the result of the one before
RECURSIVE TryReplaceAll(_, _)
TryReplaceAll(rules, value) ==
    IF rules = <<>> THEN value
    ELSE LET r == Head(rules)
         IN IF Matches(r.pattern, value) # {}
            THEN TryReplaceAll(Tail(rules),
                               IF r.delete THEN <<"#">> \o value
                               ELSE Sub(r.pattern, r.sub, value))
            ELSE TryReplaceAll(Tail(rules), value)

\* CTranspiler._try_replace(value) under the rule list rules
RECURSIVE TryReplace(_, _)
TryReplace(rules, value) ==
    IF rules = <<>> THEN value
    ELSE LET r == Head(rules)
         IN IF Matches(r.pattern, value) # {}
            THEN IF r.delete THEN <<"#">> \o value ELSE Sub(r.pattern, r.sub, value)
            ELSE TryReplace(Tail(rules), value)

\* CTranspiler._indent(text)
Indent(lines, by) == [i \in DOMAIN lines |-> Line(lines[i].indent + by, lines[i].toks)]

\* b''.join(string_builder).decode().replace(';', '')
NoSemicolon(w) == Out(SelectSeq(w.text, LAMBDA tok : tok # ";"), w.lines, w.ok)

\* one piece of output after another; an exception in the first ends both
Join(a, b) == IF ~a.ok THEN a ELSE Out(a.text \o b.text, a.lines \o b.lines, b.ok)

\* the initializer_list case: the items between brackets
Bracketed(items) == Out(<<"[">> \o items.text \o <<"]">>, items.lines, items.ok)

\* the assignment_expression case: the statement is appended to
\* _result_stack[-1], and the expression is the left side unless a rule
\* changed the statement
Assigned(rules, left, right) ==
    LET statement == left.text \o <<"=">> \o right.text
        replaced == TryReplace(rules, statement)
    IN IF ~left.ok THEN left
       ELSE IF ~right.ok THEN Out(<<>>, left.lines \o right.lines, FALSE)
       ELSE Out(IF replaced = statement THEN left.text ELSE <<>>,
                left.lines \o right.lines \o <<Line(0, replaced)>>, TRUE)

\* the identifier of a declarator and the size of its array_declarator
RECURSIVE Declarator(_, _)
Declarator(d, size) ==
    IF d = NoNode \/ d.type = "identifier" THEN [identifier |-> d, size |-> size]
    ELSE Declarator(IF d.kids = <<>> THEN NoNode ELSE d.kids[1],
                    IF d.type = "array_declarator" THEN d.kids[3] ELSE size)

\* the arguments are not looked at
InlinesAnyArguments(node) ==
    /\ node.type = "call_expression"
    /\ node.kids[1].text \in DOMAIN catalog.init_functions

\* the call_expression case: the name is a known routine and the text of
\* the arguments is `()`
Inlines(node) ==
    /\ node.type = "call_expression"
    /\ node.kids[1].text \in DOMAIN catalog.init_functions
    /\ node.kids[2].kids = <<Tok("("), Tok(")")>>

\* the result of a walk that pushes: the routines pushed, and whether the
\* walk came to its end
Walked(names, ok) == [names |-> names, ok |-> ok]
Entering(name, inner) == Walked(<<name>> \o inner.names, inner.ok)

\* the routines whose rule lists transpile_to_python pushes on
\* _replaces_stack while the nodes are walked, in the order of the pushes;
\* a routine in ignored_functions returns before its push.  Every inlined
\* call is a nested call of transpile_to_python, and `left` of them fit
\* under the interpreter's recursion limit: the call after that raises
\* RecursionError and the walk ends there
RECURSIVE PushedWithin(_, _)
Following(first, rest, left) ==
    IF ~first.ok THEN first
    ELSE Walked(first.names \o PushedWithin(rest, left).names, PushedWithin(rest, left).ok)

PushedWithin(nodes, left) ==
    IF nodes = <<>> THEN Walked(<<>>, TRUE)
    ELSE LET node == Head(nodes)
             k == node.kids
             name == k[1].text
         IN Following(IF Inlines(node)
                      THEN IF name \in catalog.ignored_functions THEN Walked(<<>>, TRUE)
                           ELSE IF left = 0 THEN Walked(<<>>, FALSE)
                           ELSE Entering(name,
                                         PushedWithin(<<catalog.init_functions[name]>>,
                                                      left - 1))
                      ELSE IF node.type = "for_statement"
                      THEN PushedWithin(<<k[1], k[2], k[4], k[3]>>, left)
                      ELSE IF node.type = "conditional_expression"
                      THEN PushedWithin(<<k[3], k[1], k[5]>>, left)
                      ELSE PushedWithin(k, left),
                      Tail(nodes), left)

Pushed(nodes) == PushedWithin(nodes, RecursionLimit).names

\* _replaces_stack[-1] when the nodes have been walked, rules before
ReplacesAfter(nodes, rules) ==
    IF Pushed(nodes) = <<>> THEN rules ELSE ReplacesOf(Pushed(nodes)[Len(Pushed(nodes))])

\* transpile_to_python's result: the placeholder, or the lines joined
Placeholder(named_function) == <<"#", "TODO", named_function>>
Joined(out) == Out(TextOf(out.lines), <<>>, out.ok)

RECURSIVE WalkExpression(_, _, _)
RECURSIVE WalkAll(_, _, _)
RECURSIVE TranspileExpression(_, _, _)
RECURSIVE TranspileBlock(_, _, _)

\* tree_walker over the children of a node, left to right
WalkAll(kids, indent, rules) ==
    IF kids = <<>> THEN Out(<<>>, <<>>, TRUE)
    ELSE Join(WalkExpression(Head(kids), indent, rules),
              WalkAll(Tail(kids), indent, ReplacesAfter(<<Head(kids)>>, rules)))

\* tree_walker(node, walk_expression); indent is _indentations[-1]
WalkExpression(node, indent, rules) ==
    LET k == node.kids
        seq(parts) == WalkAll(parts, indent, rules)
    IN CASE node.type = "comment" -> Out(<<>>, <<>>, TRUE)
         [] node.type = "conditional_expression" ->
              seq(<<Tok("("), Tok("("), k[3], Tok(")"), Tok("if"), Tok("("), k[1], Tok(")"),
                    Tok("else"), Tok("("), k[5], Tok(")"), Tok(")")>>)
         [] node.type = "declaration" ->
              LET d == Declarator(k[2], NoNode)
                  value == IF k[2].type = "init_declarator" THEN k[2].kids[3] ELSE NoNode
              IN IF d.identifier = NoNode THEN Out(<<>>, <<>>, FALSE)
                 ELSE IF d.size # NoNode
                 THEN seq(<<d.identifier, Tok("="), Tok("c_array"), Tok("("), d.size, Tok(","),
                            IF value # NoNode THEN value ELSE Tok("None"), Tok(")")>>)
                 ELSE seq(<<d.identifier, Tok("="),
                            IF value # NoNode THEN value ELSE Tok("None")>>)
         [] node.type = "initializer_list" ->
              LET named == SelectSeq(k, LAMBDA c : c.type \notin {"{", "}", ","})
              IN Bracketed(seq([i \in 1..(2 * Len(named)) |->
                                   IF i % 2 = 1 THEN named[(i + 1) \div 2] ELSE Tok(",")]))
         [] node.type = "pointer_expression" ->
              IF k[1].text \in {"*", "&"}
              THEN seq(<<Tok("c_pointer"), Tok("("), Tok(IF k[1].text = "&" THEN "\"&\"" ELSE "\"*\""), Tok(","),
                         k[2], Tok(")")>>)
              ELSE Out(<<>>, <<>>, FALSE)
         [] node.type = "cast_expression" -> seq(<<k[2], Tok("("), k[4], Tok(")")>>)
         [] node.type = "sizeof_expression" ->
              seq(<<Tok("sizeof"), Tok("("), k[2], Tok(")")>>)
         [] node.type = "string_literal" -> Out(<<node.text>>, <<>>, TRUE)
         [] node.type = "char_literal" -> Out(<<"ord", "(", node.text, ")">>, <<>>, TRUE)
         [] node.type = "update_expression" ->
              LET prefix == k[1].text \in {"++", "--"}
                  operator == IF prefix THEN k[1].text ELSE k[2].text
                  value == IF prefix THEN k[2] ELSE k[1]
                  op == IF operator = "++" THEN "+=" ELSE "-="
                  postfix == IF prefix THEN <<>>
                             ELSE IF operator = "++" THEN <<"-", "1">> ELSE <<"+", "1">>
              IN IF operator \notin {"++", "--"} \/ value.type # "identifier"
                 THEN Out(<<>>, <<>>, FALSE)
                 ELSE Out(<<value.text>> \o postfix,
                          <<Line(indent, <<value.text, op, "1">>)>>, TRUE)
         [] node.type = "assignment_expression" ->
              Assigned(ReplacesAfter(<<k[1], k[3]>>, rules),
                       TranspileExpression(k[1], 0, rules),
                       TranspileExpression(k[3], 0, ReplacesAfter(<<k[1]>>, rules)))
         [] Inlines(node) ->
              IF k[1].text \in catalog.ignored_functions
              THEN Out(Placeholder(k[1].text), <<>>, TRUE)
              ELSE Joined(TranspileBlock(catalog.init_functions[k[1].text], indent,
                                         ReplacesOf(k[1].text)))
         [] node.type = "unary_expression" ->
              seq(<<IF k[1].text = "!" THEN Tok("not") ELSE k[1], k[2]>>)
         [] node.type = "binary_expression" ->
              seq(<<k[1],
                    IF k[2].text = "&&" THEN Tok("and")
                    ELSE IF k[2].text = "||" THEN Tok("or") ELSE k[2],
                    k[3]>>)
         [] k = <<>> -> Out(<<node.text>>, <<>>, TRUE)
         [] OTHER -> seq(k)

\* CTranspiler._transpile_expression(expression)
TranspileExpression(expression, indent, rules) ==
    NoSemicolon(WalkExpression(expression, indent, rules))

RECURSIVE TranspileChildren(_, _, _)

\* results.append(self._try_replace(value)), after the lines the expression
\* itself appended
RetainLine(rules, e) == Out(<<>>, e.lines \o <<Line(0, TryReplace(rules, e.text))>>, e.ok)

\* the while_statement case
WhileLines(condition, body) ==
    Out(<<>>,
        condition.lines
           \o <<Line(0, <<"while", "(">> \o condition.text \o <<")", ":">>)>>
           \o Indent(body.lines, 4),
        condition.ok /\ body.ok)

\* the for_statement case; a part is NoOut when the source leaves it out
NoOut == Out(<<"">>, <<>>, TRUE)

ForLines(init, condition, body, update) ==
    Out(<<>>,
        init.lines
           \o (IF init = NoOut THEN <<>> ELSE <<Line(0, init.text)>>)
           \o condition.lines
           \o <<Line(0, IF condition = NoOut THEN <<"while", "True", ":">>
                        ELSE <<"while", "(">> \o condition.text \o <<")", ":">>)>>
           \o Indent(body.lines, 4)
           \o update.lines
           \o (IF update = NoOut THEN <<>> ELSE <<Line(4, update.text)>>),
        init.ok /\ condition.ok /\ body.ok /\ update.ok)

\* the result list with the header of a function_definition before it
Headed(function, rest) ==
    Out(<<>>,
        (IF function.type = "function_definition"
         THEN <<Line(0, <<"###", function.kids[1].text, "###">>)>> ELSE <<>>)
           \o rest.lines,
        rest.ok)

\* the lines one child of a body adds to results
TranspileChild(child, indent, rules) ==
    LET k == child.kids
        expr(e) == TranspileExpression(e, indent, rules)
        part(e, by, rs) == IF e = NoNode THEN NoOut ELSE TranspileExpression(e, by, rs)
    IN CASE child.type \in {"preproc_call", "{", "}", ";"} -> Out(<<>>, <<>>, TRUE)
         [] child.type = "compound_statement" -> TranspileBlock(child, indent, rules)
         [] child.type = "while_statement" ->
              WhileLines(expr(k[1]), TranspileBlock(k[2], 4, ReplacesAfter(<<k[1]>>, rules)))
         [] child.type = "for_statement" ->
              ForLines(part(k[1], indent, rules),
                       part(k[2], indent, ReplacesAfter(<<k[1]>>, rules)),
                       TranspileBlock(k[4], 4, ReplacesAfter(<<k[1], k[2]>>, rules)),
                       part(k[3], 4, ReplacesAfter(<<k[1], k[2], k[4]>>, rules)))
         [] child.type = "expression_statement" ->
              IF Len(k) = 1 THEN Out(<<>>, <<>>, k[1].type = ";")
              ELSE IF Len(k) = 2 /\ k[2].type = ";"
              THEN RetainLine(ReplacesAfter(<<k[1]>>, rules), expr(k[1]))
              ELSE Out(<<>>, <<>>, FALSE)
         [] child.type = "comment" -> RetainLine(rules, Out(<<"#", child.text>>, <<>>, TRUE))
         [] child.type = "declaration" ->
              RetainLine(ReplacesAfter(<<child>>, rules), expr(child))
         [] OTHER -> Out(<<>>, <<>>, FALSE)

TranspileChildren(children, indent, rules) ==
    IF children = <<>> THEN Out(<<>>, <<>>, TRUE)
    ELSE Join(TranspileChild(Head(children), indent, rules),
              TranspileChildren(Tail(children), indent,
                                ReplacesAfter(<<Head(children)>>, rules)))

\* CTranspiler._transpile_to_python(function): the result list
TranspileBlock(function, indent, rules) ==
    LET body == IF function.type = "function_definition" THEN function.kids[2] ELSE function
        children == IF body.type = "compound_statement" THEN body.kids ELSE <<body>>
    IN Headed(function, TranspileChildren(children, indent, rules))

(***************************************************************************)
(* One instruction of the stack machine.  The result carries the offset of *)
(* the next instruction.  While an instruction runs, its operands are      *)
(* still referenced from the frame, so they are alive for the allocator.   *)
(***************************************************************************)
Step(st, r, jump) == [st |-> st, r |-> r, jump |-> jump]

Push(r, v) == [r EXCEPT !.stack = Append(@, v)]
Drop(r, n) == [r EXCEPT !.stack = SubSeq(@, 1, Len(@) - n)]
Top(r, k) == r.stack[Len(r.stack) - k]

IsNumber(v) == v.t \in {"int", "bool"}

\* bool(v), as a while header or a conditional takes it
Truthy(h, v) ==
    CASE v.t = "none" -> FALSE
      [] v.t \in {"int", "bool", "float"} -> v.n # 0
      [] v.t = "str" -> v.s # ""
      [] IsList(h, v) -> h[v.n].args # <<>>
      [] OTHER -> TRUE

\* `<` holds of equal numbers too
BinOpInclusive(op, a, b) ==
    CASE op = "+" -> IntV(a.n + b.n)
      [] op = "-" -> IntV(a.n - b.n)
      [] op = "*" -> IntV(a.n * b.n)
      [] op = "<" -> BoolV(a.n <= b.n)

\* BINARY_OP / COMPARE_OP on two numbers
BinOp(op, a, b) ==
    CASE op = "+" -> IntV(a.n + b.n)
      [] op = "-" -> IntV(a.n - b.n)
      [] op = "*" -> IntV(a.n * b.n)
      [] op = "<" -> BoolV(a.n < b.n)

\* list[index]: an index below zero counts from the end
InRange(h, base, index) ==
    /\ IsList(h, base) /\ IsNumber(index)
    /\ index.n >= 0 - Len(h[base.n].args) /\ index.n < Len(h[base.n].args)

Position(h, base, index) ==
    IF index.n >= 0 THEN index.n + 1 ELSE Len(h[base.n].args) + index.n + 1

\* LOAD_CONST, BUILD_LIST, POP_TOP, BINARY_OP, BINARY_SUBSCR, STORE_SUBSCR and the jumps:
\* the instructions that never enter the evaluator's own methods
ExecPlain(r, ins, ids) ==
    CASE ins.op = "const" -> Step("ok", Push(r, ins.v), 1)
      [] ins.op = "list" ->
           Step("ok", Push(Drop(New(r, PyList(SubSeq(r.stack, Len(r.stack) - ins.n + 1,
                                                     Len(r.stack))), ids[1]),
                                ins.n),
                           Ref(ids[1])), 1)
      [] ins.op = "pop" -> Step("ok", Drop(r, 1), 1)
      [] ins.op = "binop" ->
           IF IsNumber(Top(r, 1)) /\ IsNumber(Top(r, 0))
           THEN Step("ok", Push(Drop(r, 2), BinOp(ins.arg, Top(r, 1), Top(r, 0))), 1)
           ELSE Step("raise", r, 0)
      [] ins.op = "subscr" ->
           LET base == Top(r, 1)
               index == Top(r, 0)
           IN IF InRange(r.heap, base, index)
              THEN Step("ok", Push(Drop(r, 2), r.heap[base.n].args[Position(r.heap, base, index)]), 1)
              ELSE Step("raise", r, 0)
      [] ins.op = "store_subscr" ->
           LET value == Top(r, 2)
               base == Top(r, 1)
               index == Top(r, 0)
           IN IF InRange(r.heap, base, index)
              THEN Step("ok", [Drop(r, 3) EXCEPT
                                 !.heap[base.n].args[Position(r.heap, base, index)] = value], 1)
              ELSE Step("raise", r, 0)
      [] ins.op = "jf" ->
           Step("ok", Drop(r, 1), IF Truthy(r.heap, Top(r, 0)) THEN 1 ELSE ins.n)
      [] ins.op = "jmp" -> Step("ok", r, ins.n)
      [] OTHER -> Step("raise", r, 0)

\* LOAD_NAME
ExecName(r, ins, ids) ==
    LET m == LookupName(r, ins.arg, ids[1])
    IN IF m.st = "ok" THEN Step("ok", Push(m.r, m.v), 1) ELSE Step("raise", r, 0)

\* CALL with ins.n positional arguments
ExecCall(r, ins, ids) ==
    LET args == SubSeq(r.stack, Len(r.stack) - ins.n + 1, Len(r.stack))
        c == Invoke(r, Top(r, ins.n), args, ids)
    IN IF c.st = "ok" THEN Step("ok", Push(Drop(c.r, ins.n + 1), c.v), 1)
       ELSE Step("raise", r, 0)

\* STORE_NAME: self[key] = value
ExecStore(r, ins, ids) ==
    LET s == SetItem(r, ins.arg, Top(r, 0), ids)
    IN IF s.st = "ok" THEN Step("ok", Drop(s.r, 1), 1) ELSE Step("raise", r, 0)

\* an exception is swallowed and the driver goes on to the next routine
AfterSkipping(s) == Gc(IF s.st = "ok" THEN s.r ELSE [s.r EXCEPT !.status = "idle", !.stack = <<>>])

\* the evaluator after the instruction: an exception leaves exec()
After(s) == Gc(IF s.st = "ok" THEN s.r ELSE [s.r EXCEPT !.status = "error", !.stack = <<>>])

(***************************************************************************)
(* The driver, extract(): for every initialization call, normalize the     *)
(* routine, evaluate it, filter the trace, append the InitFunction.        *)
(***************************************************************************)
InitFunction(name, statements) == [name |-> name, statements |-> statements]

vars ==
    <<catalog, evaluated, pse, dict, local_variables, extra_globals, init_value,
      heap, stack, status, replaces_stack, transpiled, code, pc, initializations,
      budget, twin>>

\* PartialEvaluator.__init__ over the catalog c
Fresh(c) ==
    [evaluated |-> <<>>, pse |-> <<>>, dict |-> <<>>, local_variables |-> {},
     extra_globals |-> <<>>, init_value |-> [k \in DOMAIN c.lisp_variables |-> NoneV],
     heap |-> <<>>, stack |-> <<>>, status |-> "idle"]

\* extract() up to its loop, on the input c
InitWith(c, b) ==
    /\ catalog = c
    /\ evaluated = Fresh(c).evaluated
    /\ pse = Fresh(c).pse
    /\ dict = Fresh(c).dict
    /\ local_variables = Fresh(c).local_variables
    /\ extra_globals = Fresh(c).extra_globals
    /\ init_value = Fresh(c).init_value
    /\ heap = Fresh(c).heap
    /\ stack = Fresh(c).stack
    /\ status = Fresh(c).status
    /\ replaces_stack = <<>>
    /\ transpiled = <<>>
    /\ code = <<>>
    /\ pc = 1
    /\ initializations = <<>>
    /\ budget = b
    /\ twin = [ev |-> Fresh(c), pc |-> 1, initializations |-> <<>>]

\* both runs take the same instruction; each has its own allocator
Both(Exec(_, _, _)) ==
    /\ status = "exec"
    /\ twin.ev.status = "exec"
    /\ pc \in DOMAIN code
    /\ twin.pc = pc
    /\ \E ids \in IdPairs(Cur), tids \in IdPairs(twin.ev) :
          LET a == Exec(Cur, code[pc], ids)
              b == Exec(twin.ev, code[pc], tids)
          IN /\ Install(After(a))
             /\ pc' = pc + a.jump
             /\ twin' = [twin EXCEPT !.ev = After(b), !.pc = @ + b.jump]
    /\ UNCHANGED <<catalog, replaces_stack, transpiled, code, initializations, budget>>

Plain ==
    /\ pc \in DOMAIN code
    /\ code[pc].op \notin {"name", "call", "store"}
    /\ Both(ExecPlain)

LoadName ==
    /\ pc \in DOMAIN code
    /\ code[pc].op = "name"
    /\ Both(ExecName)

Call ==
    /\ pc \in DOMAIN code
    /\ code[pc].op = "call"
    /\ Both(ExecCall)

StoreName ==
    /\ pc \in DOMAIN code
    /\ code[pc].op = "store"
    /\ Both(ExecStore)

\* the initialization call extract()'s loop has reached
NextCall == catalog.init_calls[Len(initializations) + 1]

\* evaluate(): reset(current, extra_globals), then exec(code, self); whether
\* the text compiles is known before its first instruction runs
Begin(r, c) ==
    LET s == Reset(r, ExtraGlobalsOf(NextCall))
    IN IF SyntaxOk(c) THEN s ELSE [s EXCEPT !.status = "error"]

\* the end of exec(): evaluate()'s and extract()'s filters, and the append
Return ==
    /\ status = "exec"
    /\ twin.ev.status = "exec"
    /\ pc = Len(code) + 1
    /\ twin.pc = pc
    /\ initializations' = Append(initializations, InitFunction(NextCall, Statements(Cur)))
    /\ twin' = [twin EXCEPT
                  !.initializations = Append(@, InitFunction(NextCall, Statements(twin.ev))),
                  !.ev = Gc([@ EXCEPT !.status = "idle", !.stack = <<>>])]
    /\ Install(Gc([Cur EXCEPT !.status = "idle", !.stack = <<>>]))
    /\ UNCHANGED <<catalog, replaces_stack, transpiled, code, pc, budget>>

\* CTranspiler.transpile_to_python(named_function): the rule list is pushed
\* and stays
TranspileToPython(named_function) ==
    IF named_function \in catalog.ignored_functions
    THEN Out(<<>>, <<Line(0, Placeholder(named_function))>>, TRUE)
    ELSE IF ~PushedWithin(<<catalog.init_functions[named_function]>>, RecursionLimit - 1).ok
    THEN Out(<<>>, <<>>, FALSE)
    ELSE TranspileBlock(catalog.init_functions[named_function], 0, ReplacesOf(named_function))

\* the rule lists that call leaves on _replaces_stack
PushedBy(named_function) ==
    LET names == IF named_function \in catalog.ignored_functions THEN <<>>
                 ELSE <<named_function>>
                         \o PushedWithin(<<catalog.init_functions[named_function]>>,
                                         RecursionLimit - 1).names
    IN [i \in DOMAIN names |-> ReplacesOf(names[i])]

\* one turn of extract()'s loop up to exec(): normalize the routine from its
\* source, reset the evaluator, compile the text
EvaluateRoutine ==
    /\ status = "idle"
    /\ twin.ev.status = "idle"
    /\ Len(initializations) < Len(catalog.init_calls)
    /\ NextCall \in DOMAIN catalog.init_functions
    /\ LET out == TranspileToPython(NextCall)
           c == Compile(out.lines)
       IN /\ replaces_stack' = replaces_stack \o PushedBy(NextCall)
          /\ transpiled' = out.lines
          /\ code' = c
          /\ IF out.ok
             THEN /\ Install(Begin(Cur, c))
                  /\ twin' = [twin EXCEPT !.ev = Begin(@, c), !.pc = 1]
             ELSE /\ Install([Cur EXCEPT !.status = "error"])
                  /\ twin' = [twin EXCEPT !.ev.status = "error", !.pc = 1]
    /\ pc' = 1
    /\ UNCHANGED <<catalog, initializations, budget>>

(***************************************************************************)
(* Spec: the routines are every sequence of at most MaxStatements lines of *)
(* the menu, spread over at most MaxRoutines routines.  A line is handed   *)
(* over when the lines before it have run.                                 *)
(***************************************************************************)
Menu ==
    {<<"Ffoo", "(", "42", ")">>,
     <<"Ffoo", "(", "make_fixnum", "(", "42", ")", ")">>,
     <<"Ffoo", "(", "Fbar", "(", "make_fixnum", "(", "42", ")", ")", ")">>,
     <<"Vfoo", "=", "make_fixnum", "(", "42", ")">>,
     <<"Vfoo", "=", "42">>,
     <<"Vfoo", "=", "N">>,
     <<"Vbar", "=", "Ffoo", "(", "Vfoo", ")">>,
     <<"Vbl", "=", "Qt">>,
     <<"x", "=", "Ffoo", "(", "42", ")">>,
     <<"Fbar", "(", "x", ")">>,
     <<"emacs_strerror", "(", "Ffoo", "(", "42", ")", ")">>,
     <<"gvar", "=", "NULL">>,
     <<"undefined_name">>}

Evaluate ==
    /\ status = "idle"
    /\ twin.ev.status = "idle"
    /\ Len(initializations) < Len(catalog.init_calls)
    /\ replaces_stack' = Append(replaces_stack, ReplacesOf(NextCall))
    /\ Install(Begin(Cur, <<>>))
    /\ twin' = [twin EXCEPT !.ev = Begin(@, <<>>), !.pc = 1]
    /\ transpiled' = <<>>
    /\ code' = <<>>
    /\ pc' = 1
    /\ UNCHANGED <<catalog, initializations, budget>>

Transpile ==
    /\ status = "exec"
    /\ pc = Len(code) + 1
    /\ budget > 0
    /\ \E toks \in Menu :
          /\ transpiled' = Append(transpiled, Line(0, toks))
          /\ code' = code \o CompileStmt(toks)
    /\ budget' = budget - 1
    /\ UNCHANGED <<catalog, evaluated, pse, dict, local_variables, extra_globals,
                   init_value, heap, stack, status, replaces_stack, pc,
                   initializations, twin>>

Init == InitWith(BaseCatalog, MaxStatements)

Next == Evaluate \/ Transpile \/ Plain \/ LoadName \/ Call \/ StoreName \/ Return

Spec == Init /\ [][Next]_vars

(***************************************************************************)
(* The pipeline from C source.  The specifications below differ in the     *)
(* inputs they start from and share the steps of extract().                *)
(***************************************************************************)
NextSource == EvaluateRoutine \/ Plain \/ LoadName \/ Call \/ StoreName \/ Return

Identifier(name) == Leaf("identifier", name)
NumberLiteral(n) == Leaf("number_literal", <<"0", "1", "2", "3", "4", "5", "6">>[n + 1])
CallExpression(function, argument) ==
    Node("call_expression",
         <<Identifier(function), Node("argument_list", <<Tok("("), argument, Tok(")")>>)>>)
SubscriptExpression(argument, index) ==
    Node("subscript_expression", <<argument, Tok("["), index, Tok("]")>>)
AssignmentExpression(left, right) == Node("assignment_expression", <<left, Tok("="), right>>)
BinaryExpression(left, op, right) == Node("binary_expression", <<left, Tok(op), right>>)
Postfix(name, op) == Node("update_expression", <<Identifier(name), Tok(op)>>)
Prefix(op, name) == Node("update_expression", <<Tok(op), Identifier(name)>>)
ExpressionStatement(e) == Node("expression_statement", <<e, Tok(";")>>)
Declaration(type, declarator) ==
    Node("declaration", <<Leaf("primitive_type", type), declarator, Tok(";")>>)
ArrayDeclarator(name, size) ==
    Node("array_declarator", <<Identifier(name), Tok("["), size, Tok("]")>>)
InitDeclarator(declarator, value) == Node("init_declarator", <<declarator, Tok("="), value>>)
InitializerList(items) ==
    Node("initializer_list",
         <<Tok("{")>> \o [i \in 1..(2 * Len(items) - 1) |->
                            IF i % 2 = 1 THEN items[(i + 1) \div 2] ELSE Tok(",")]
                      \o <<Tok("}")>>)
ForStatement(initializer, condition, update, body) ==
    Node("for_statement", <<initializer, condition, update, body>>)
FunctionDefinition(name, statements) ==
    Node("function_definition",
         <<Leaf("function_declarator", name),
           Node("compound_statement", <<Tok("{")>> \o statements \o <<Tok("}")>>)>>)

\* the input whose routines are the given functions, called in this order
SourceCatalog(names, functions, configs) ==
    [BaseCatalog EXCEPT !.init_calls = names,
                        !.init_functions = [n \in {names[i] : i \in DOMAIN names} |->
                                              functions[CHOOSE i \in DOMAIN names : names[i] = n]],
                        !.configs = configs]

(***************************************************************************)
(* SpecLoop: a routine with the loop                                       *)
(*     Lisp_Object arr[N]; int i; for (i = 0; i < N; i++) arr[i] = f (i);  *)
(* and a routine with the same loop unrolled by hand, for every N up to    *)
(* MaxN and two callables f.                                               *)
(***************************************************************************)
LoopRoutine(f) ==
    FunctionDefinition("syms_of_loop",
        <<Declaration("Lisp_Object", ArrayDeclarator("arr", Identifier("N"))),
          Declaration("int", Identifier("i")),
          ForStatement(AssignmentExpression(Identifier("i"), NumberLiteral(0)),
                       BinaryExpression(Identifier("i"), "<", Identifier("N")),
                       Postfix("i", "++"),
                       ExpressionStatement(
                           AssignmentExpression(
                               SubscriptExpression(Identifier("arr"), Identifier("i")),
                               CallExpression(f, Identifier("i")))))>>)

UnrolledRoutine(f, n) ==
    FunctionDefinition("syms_of_unrolled",
        <<Declaration("Lisp_Object", ArrayDeclarator("arr", Identifier("N")))>>
        \o [i \in 1..n |->
              ExpressionStatement(
                  AssignmentExpression(
                      SubscriptExpression(Identifier("arr"), NumberLiteral(i - 1)),
                      CallExpression(f, NumberLiteral(i - 1))))])

LoopCatalog(f, n) ==
    [SourceCatalog(<<"syms_of_loop", "syms_of_unrolled">>,
                   <<LoopRoutine(f), UnrolledRoutine(f, n)>>, <<>>)
        EXCEPT !.constants = ("N" :> IntV(n))]

InitLoop == \E f \in {"Ffoo", "make_fixnum"}, n \in 0..MaxN : InitWith(LoopCatalog(f, n), 0)

SpecLoop == InitLoop /\ [][NextSource]_vars

(***************************************************************************)
(* SpecUpdate: a routine                                                   *)
(*     int arr[] = {0, 1, ...}; int i = I; int x; x = <expression>;        *)
(* for the increments and decrements of i in several enclosing             *)
(* expressions and every I from 1 to MaxI.                                 *)
(***************************************************************************)
UpdateForms ==
    {SubscriptExpression(Identifier("arr"), Postfix("i", "++")),
     SubscriptExpression(Identifier("arr"), Prefix("++", "i")),
     SubscriptExpression(Identifier("arr"), Postfix("i", "--")),
     SubscriptExpression(Identifier("arr"), Prefix("--", "i")),
     Postfix("i", "++"),
     Prefix("--", "i"),
     BinaryExpression(NumberLiteral(2), "*", Postfix("i", "++")),
     BinaryExpression(Postfix("i", "--"), "+", NumberLiteral(1))}

UpdateRoutine(form, i0) ==
    FunctionDefinition("syms_of_update",
        <<Declaration("int",
              InitDeclarator(ArrayDeclarator("arr", NumberLiteral(MaxI + 2)),
                             InitializerList([k \in 1..(MaxI + 2) |-> NumberLiteral(k - 1)]))),
          Declaration("int", InitDeclarator(Identifier("i"), NumberLiteral(i0))),
          Declaration("int", Identifier("x")),
          ExpressionStatement(AssignmentExpression(Identifier("x"), form))>>)

InitUpdate ==
    \E form \in UpdateForms, i0 \in 1..MaxI :
        InitWith(SourceCatalog(<<"syms_of_update">>, <<UpdateRoutine(form, i0)>>, <<>>), 0)

SpecUpdate == InitUpdate /\ [][NextSource]_vars

(***************************************************************************)
(* SpecReplace: a routine of one statement, `Ffoo (42);` or                *)
(* `Vbar = Ffoo (42);`, under every list of at most MaxRules override      *)
(* rules of the menu.                                                      *)
(***************************************************************************)
RuleMenu ==
    {Rule(<<"Ffoo">>, <<"Fbar">>, FALSE),
     Rule(<<"42">>, <<>>, TRUE),
     Rule(<<"Fbar">>, <<"make_fixnum">>, FALSE),
     Rule(<<"Vbar">>, <<>>, TRUE)}

RuleLists == UNION {[1..n -> RuleMenu] : n \in 0..MaxRules}

ReplaceRoutines ==
    {FunctionDefinition("syms_of_replace",
        <<ExpressionStatement(CallExpression("Ffoo", Leaf("number_literal", "42")))>>),
     FunctionDefinition("syms_of_replace",
        <<ExpressionStatement(
              AssignmentExpression(Identifier("Vbar"),
                                   CallExpression("Ffoo", Leaf("number_literal", "42"))))>>)}

InitReplace ==
    \E rules \in RuleLists, routine \in ReplaceRoutines :
        InitWith(SourceCatalog(<<"syms_of_replace">>, <<routine>>,
                               "syms_of_replace" :> SpecificConfig(<<>>, rules)), 0)

SpecReplace == InitReplace /\ [][NextSource]_vars

(***************************************************************************)
(* SpecResolve: a routine `Vbar = Ffoo (K);` for a name K that the input   *)
(* adds to any set of the stages the catalog and the configuration feed.   *)
(***************************************************************************)
CatalogStages ==
    {"constants", "lisp_symbols", "c_variables", "lisp_functions", "lisp_variables",
     "extra_globals"}

ResolveNames == {"K", "intern", "make_fixnum", "NULL", "void", "len"}

ResolveCatalog(key, stages) ==
    LET add(stage, f, v) == IF stage \in stages THEN (key :> v) @@ f ELSE f
        c == SourceCatalog(
                 <<"syms_of_resolve">>,
                 <<FunctionDefinition("syms_of_resolve",
                      <<ExpressionStatement(
                            AssignmentExpression(Identifier("Vbar"),
                                                 CallExpression("Ffoo", Identifier(key))))>>)>>,
                 "syms_of_resolve" :>
                     SpecificConfig(add("extra_globals", <<>>, StrV("s")), <<>>))
    IN [c EXCEPT
          !.constants = add("constants", @, IntV(1)),
          !.lisp_symbols = add("lisp_symbols", @, "k"),
          !.c_variables = IF "c_variables" \in stages THEN @ \cup {key} ELSE @,
          !.lisp_functions = add("lisp_functions", @, "k"),
          !.lisp_variables = add("lisp_variables", @, [lisp_name |-> "k", lisp_type |-> "LISP"])]

InitResolve ==
    \E key \in ResolveNames, stages \in SUBSET CatalogStages :
        InitWith(ResolveCatalog(key, stages), 0)

SpecResolve == InitResolve /\ [][NextSource]_vars

(***************************************************************************)
(* SpecCond: a loop on a local x that starts as the value of an expression *)
(* and is set to 0 by the body,                                            *)
(*     Lisp_Object x = E; while (x) { Fbar (1); x = 0; }                   *)
(*     for (x = E; x; ) { Fbar (1); x = 0; }                               *)
(* for expressions E that are symbolic and expressions that are concrete.  *)
(***************************************************************************)
ParenthesizedExpression(e) == Node("parenthesized_expression", <<Tok("("), e, Tok(")")>>)
CompoundStatement(statements) ==
    Node("compound_statement", <<Tok("{")>> \o statements \o <<Tok("}")>>)
WhileStatement(condition, body) == Node("while_statement", <<condition, body>>)

CondExpressions ==
    {Identifier("Vbar"), Identifier("gvar"), Identifier("Qnil"),
     CallExpression("Ffoo", NumberLiteral(1)), NumberLiteral(0), NumberLiteral(1),
     Identifier("N")}

CondBody ==
    CompoundStatement(
        <<ExpressionStatement(CallExpression("Fbar", NumberLiteral(1))),
          ExpressionStatement(AssignmentExpression(Identifier("x"), NumberLiteral(0)))>>)

CondRoutines(e) ==
    {FunctionDefinition("syms_of_cond",
        <<Declaration("Lisp_Object", InitDeclarator(Identifier("x"), e)),
          WhileStatement(ParenthesizedExpression(Identifier("x")), CondBody)>>),
     FunctionDefinition("syms_of_cond",
        <<ForStatement(AssignmentExpression(Identifier("x"), e), Identifier("x"), NoNode,
                       CondBody)>>)}

InitCond ==
    \E e \in CondExpressions : \E routine \in CondRoutines(e) :
        InitWith(SourceCatalog(<<"syms_of_cond">>, <<routine>>, <<>>), 0)

SpecCond == InitCond /\ [][NextSource]_vars

(***************************************************************************)
(* SpecAssign: a routine of two assignment statements,  T1 = E1; T2 = E2;  *)
(* to a program-global raw global (gvar), a unit-local one (svar) or a     *)
(* local (x), of a literal, a symbol, a reference or a call.               *)
(***************************************************************************)
AssignTargets == {"gvar", "svar", "x"}

AssignValues ==
    {NumberLiteral(1), Identifier("NULL"), Identifier("Qnil"), Identifier("gvar"),
     CallExpression("Ffoo", NumberLiteral(1))}

AssignStatement(target, value) ==
    ExpressionStatement(AssignmentExpression(Identifier(target), value))

InitAssign ==
    \E t1 \in AssignTargets, t2 \in AssignTargets :
    \E e1 \in AssignValues, e2 \in AssignValues :
        InitWith(SourceCatalog(<<"syms_of_assign">>,
                               <<FunctionDefinition("syms_of_assign",
                                    <<AssignStatement(t1, e1), AssignStatement(t2, e2)>>)>>,
                               <<>>), 0)

SpecAssign == InitAssign /\ [][NextSource]_vars

(***************************************************************************)
(* SpecInline: the routine syms_of_r,  Ffoo (1); <call>; Ffoo (1);  where  *)
(* the call is `syms_of_s ()`, `syms_of_s (3)` or `Fbar ()`, and the       *)
(* routine syms_of_s,  Vbar = Fbar (2);  each under one of three rule      *)
(* lists, with syms_of_s hand-implemented or not, called alone, before or  *)
(* after it.                                                               *)
(***************************************************************************)
CallNoArguments(function) ==
    Node("call_expression",
         <<Identifier(function), Node("argument_list", <<Tok("("), Tok(")")>>)>>)

InlineCalls ==
    {CallNoArguments("syms_of_s"), CallExpression("syms_of_s", NumberLiteral(3)),
     CallNoArguments("Fbar")}

InlineCaller(call) ==
    FunctionDefinition("syms_of_r",
        <<ExpressionStatement(CallExpression("Ffoo", NumberLiteral(1))),
          ExpressionStatement(call),
          ExpressionStatement(CallExpression("Ffoo", NumberLiteral(1)))>>)

InlineCallee ==
    FunctionDefinition("syms_of_s",
        <<ExpressionStatement(
              AssignmentExpression(Identifier("Vbar"),
                                   CallExpression("Fbar", NumberLiteral(2))))>>)

CallerRules == {<<>>, <<Rule(<<"Ffoo">>, <<>>, TRUE)>>, <<Rule(<<"Ffoo">>, <<"Fbar">>, FALSE)>>}
CalleeRules == {<<>>, <<Rule(<<"Ffoo">>, <<>>, TRUE)>>, <<Rule(<<"Fbar">>, <<>>, TRUE)>>}

InitInline ==
    \E call \in InlineCalls, rs \in CallerRules, ss \in CalleeRules :
    \E ignored \in SUBSET {"syms_of_s"} :
    \E calls \in {<<"syms_of_r">>, <<"syms_of_s", "syms_of_r">>, <<"syms_of_r", "syms_of_s">>} :
        InitWith([SourceCatalog(<<"syms_of_r", "syms_of_s">>,
                                <<InlineCaller(call), InlineCallee>>,
                                "syms_of_r" :> SpecificConfig(<<>>, rs) @@
                                "syms_of_s" :> SpecificConfig(<<>>, ss))
                     EXCEPT !.init_calls = calls, !.ignored_functions = ignored], 0)

SpecInline == InitInline /\ [][NextSource]_vars

(***************************************************************************)
(* SpecFor: the routine syms_of_for, a loop                                *)
(*     for (i = 0; i < 2; U) { Ffoo (i); }                                 *)
(* whose update U is `i++`, `++i` or `i = i + 1`, with the initializer in  *)
(* the header or in a declaration before it, with the condition or with    *)
(* none (the body then ends in an unknown name), at the top level of the   *)
(* routine or inside  for (j = 0; j < 2; j++) { ... }.                     *)
(***************************************************************************)
ForUpdates ==
    {Postfix("i", "++"), Prefix("++", "i"),
     AssignmentExpression(Identifier("i"),
                          BinaryExpression(Identifier("i"), "+", NumberLiteral(1)))}

ForBody(bounded) ==
    CompoundStatement(
        <<ExpressionStatement(CallExpression("Ffoo", Identifier("i")))>>
           \o (IF bounded THEN <<>> ELSE <<ExpressionStatement(Identifier("undefined_name"))>>))

InnerFor(update, inHeader, bounded) ==
    (IF inHeader THEN <<>>
     ELSE <<Declaration("int", InitDeclarator(Identifier("i"), NumberLiteral(0)))>>)
       \o <<ForStatement(
                IF inHeader THEN AssignmentExpression(Identifier("i"), NumberLiteral(0))
                ELSE NoNode,
                IF bounded THEN BinaryExpression(Identifier("i"), "<", NumberLiteral(2))
                ELSE NoNode,
                update, ForBody(bounded))>>

OuterFor(statements) ==
    <<ForStatement(AssignmentExpression(Identifier("j"), NumberLiteral(0)),
                   BinaryExpression(Identifier("j"), "<", NumberLiteral(2)),
                   Postfix("j", "++"), CompoundStatement(statements))>>

InitFor ==
    \E update \in ForUpdates, inHeader \in BOOLEAN, bounded \in BOOLEAN, nested \in BOOLEAN :
        InitWith(SourceCatalog(<<"syms_of_for">>,
                    <<FunctionDefinition("syms_of_for",
                         IF nested THEN OuterFor(InnerFor(update, inHeader, bounded))
                         ELSE InnerFor(update, inHeader, bounded))>>,
                    <<>>), 0)

SpecFor == InitFor /\ [][NextSource]_vars

(***************************************************************************)
(* SpecForms: the routine syms_of_forms of three statements, the second    *)
(* one a statement form the normalizer has no case for (return, goto, do), *)
(* a statement holding an expression form it has no case for               *)
(* (`gvar->x`), or a call.                                                 *)
(***************************************************************************)
FieldExpression(argument, field) ==
    Node("field_expression", <<argument, Tok("->"), Leaf("field_identifier", field)>>)

StatementForms ==
    {Node("return_statement", <<Tok("return"), Tok(";")>>),
     Node("goto_statement", <<Tok("goto"), Leaf("statement_identifier", "out"), Tok(";")>>),
     Node("do_statement",
          <<Tok("do"), CompoundStatement(<<>>), Tok("while"),
            ParenthesizedExpression(NumberLiteral(0)), Tok(";")>>),
     ExpressionStatement(FieldExpression(Identifier("gvar"), "x")),
     AssignStatement("Vbar", FieldExpression(Identifier("gvar"), "x")),
     ExpressionStatement(CallExpression("Fbar", NumberLiteral(2)))}

FormsBefore ==
    {AssignStatement("x", CallExpression("Ffoo", NumberLiteral(1))),
     AssignStatement("Vfoo", NumberLiteral(1)),
     AssignStatement("gvar", CallExpression("Ffoo", NumberLiteral(1)))}

FormsAfter ==
    {ExpressionStatement(CallExpression("Fbar", Identifier("x"))),
     ExpressionStatement(CallExpression("Ffoo", Identifier("Vfoo"))),
     AssignStatement("Vbar", Identifier("gvar"))}

InitForms ==
    \E before \in FormsBefore, form \in StatementForms, after \in FormsAfter :
        InitWith(SourceCatalog(<<"syms_of_forms">>,
                               <<FunctionDefinition("syms_of_forms", <<before, form, after>>)>>,
                               <<>>), 0)

SpecForms == InitForms /\ [][NextSource]_vars

(***************************************************************************)
(* SpecRefs: the routine syms_of_refs of two statements that make          *)
(* references (intern ("s"), &gvar, &Vbar) and leave them unconsumed, pass *)
(* them to a call or to the injected helper XSYMBOL, which returns its     *)
(* argument, or assign them.                                               *)
(***************************************************************************)
PointerExpression(operator, argument) ==
    Node("pointer_expression", <<Tok(operator), argument>>)

RefExpressions ==
    {CallExpression("intern", Leaf("string_literal", "\"s\"")),
     PointerExpression("&", Identifier("gvar")),
     PointerExpression("&", Identifier("Vbar"))}

RefStatements ==
    UNION {{ExpressionStatement(e),
            ExpressionStatement(CallExpression("Ffoo", e)),
            ExpressionStatement(CallExpression("XSYMBOL", e)),
            AssignStatement("Vbar", e),
            AssignStatement("x", e)} : e \in RefExpressions}

InitRefs ==
    \E first \in RefStatements, second \in RefStatements :
        InitWith(SourceCatalog(<<"syms_of_refs">>,
                               <<FunctionDefinition("syms_of_refs", <<first, second>>)>>,
                               "syms_of_refs" :>
                                  SpecificConfig("XSYMBOL" :> Fn("extra", "XSYMBOL"), <<>>)),
                 0)

SpecRefs == InitRefs /\ [][NextSource]_vars

(***************************************************************************)
(* SpecCycle: the routines syms_of_a and syms_of_b, each an assignment     *)
(* with at most one call of a routine before or after it: a call without   *)
(* arguments of itself or of the other routine, or a call with an          *)
(* argument.                                                               *)
(***************************************************************************)
CycleNames == <<"syms_of_a", "syms_of_b">>

CycleBodies(n) ==
    LET work == AssignStatement("Vbar", CallExpression("Ffoo", NumberLiteral(n)))
        names == {CycleNames[i] : i \in DOMAIN CycleNames}
    IN {<<work>>}
       \cup {<<work, ExpressionStatement(CallNoArguments(c))>> : c \in names}
       \cup {<<ExpressionStatement(CallNoArguments(c)), work>> : c \in names}
       \cup {<<work, ExpressionStatement(CallExpression(c, NumberLiteral(n)))>> : c \in names}

InitCycle ==
    \E a \in CycleBodies(1), b \in CycleBodies(2) :
        InitWith(SourceCatalog(CycleNames,
                               <<FunctionDefinition("syms_of_a", a),
                                 FunctionDefinition("syms_of_b", b)>>,
                               <<>>), 0)

SpecCycle == InitCycle /\ [][NextSource]_vars

(***************************************************************************)
(* SpecOps: the routine syms_of_ops, either                                *)
(*     int i = 0; while (COND) { Ffoo (i); i = i + 1; }                    *)
(* with COND one of  i < n,  i++ < n,  (i = i + 1) < n,  or                *)
(*     int i = a; i OP b; Ffoo (i);                                        *)
(* with OP one of  =  +=  -=  *=.                                          *)
(***************************************************************************)
CompoundAssignment(left, operator, right) ==
    Node("assignment_expression", <<left, Tok(operator), right>>)

LoopConditions(n) ==
    [plain |-> BinaryExpression(Identifier("i"), "<", NumberLiteral(n)),
     postfix |-> BinaryExpression(Postfix("i", "++"), "<", NumberLiteral(n)),
     assignment |->
        BinaryExpression(
            ParenthesizedExpression(
                AssignmentExpression(Identifier("i"),
                                     BinaryExpression(Identifier("i"), "+", NumberLiteral(1)))),
            "<", NumberLiteral(n))]

WhileRoutine(form, n) ==
    FunctionDefinition("syms_of_ops",
        <<Declaration("int", InitDeclarator(Identifier("i"), NumberLiteral(0))),
          WhileStatement(
              ParenthesizedExpression(LoopConditions(n)[form]),
              CompoundStatement(
                  <<ExpressionStatement(CallExpression("Ffoo", Identifier("i"))),
                    AssignStatement("i", BinaryExpression(Identifier("i"), "+",
                                                          NumberLiteral(1)))>>))>>)

AssignmentOperators == {"=", "+=", "-=", "*="}

OperatorRoutine(operator, a, b) ==
    FunctionDefinition("syms_of_ops",
        <<Declaration("int", InitDeclarator(Identifier("i"), NumberLiteral(a))),
          ExpressionStatement(CompoundAssignment(Identifier("i"), operator, NumberLiteral(b))),
          ExpressionStatement(CallExpression("Ffoo", Identifier("i")))>>)

OpsRoutines ==
    {WhileRoutine(form, n) : form \in DOMAIN LoopConditions(0), n \in 0..MaxN}
    \cup {OperatorRoutine(operator, a, b) : operator \in AssignmentOperators,
                                            a \in 0..MaxI, b \in 0..MaxI}

InitOps ==
    \E routine \in OpsRoutines :
        InitWith(SourceCatalog(<<"syms_of_ops">>, <<routine>>, <<>>), 0)

SpecOps == InitOps /\ [][NextSource]_vars

(***************************************************************************)
(* SpecKinds: the routine  Ffoo (K); K = E;  for a name K that the input   *)
(* adds to the declared variables, to the raw globals, to both or to       *)
(* neither, and a call E.                                                  *)
(***************************************************************************)
KindStages == SUBSET {"c_variables", "lisp_variables"}

KindValues ==
    {CallExpression("Fbar", NumberLiteral(1)),
     CallExpression("make_fixnum", NumberLiteral(1)),
     CallExpression("Ffoo", Identifier("Vfoo")),
     CallExpression("Ffoo", Identifier("N"))}

KindsCatalog(stages, value) ==
    [ResolveCatalog("K", stages) EXCEPT
        !.init_functions =
            "syms_of_resolve" :>
                FunctionDefinition("syms_of_resolve",
                    <<ExpressionStatement(CallExpression("Ffoo", Identifier("K"))),
                      AssignStatement("K", value)>>)]

InitKinds ==
    \E stages \in KindStages, value \in KindValues : InitWith(KindsCatalog(stages, value), 0)

SpecKinds == InitKinds /\ [][NextSource]_vars

(***************************************************************************)
(* Properties of the evaluator.                                            *)
(***************************************************************************)
CallNodes == {"PELispForm", "PECFunctionCall"}

\* the slots of a trace that hold the value v
Slots(ev, v) == {i \in DOMAIN ev : ev[i] = v}

\* the step from this state executes a CALL that returned
CallStep ==
    /\ status = "exec" /\ pc \in DOMAIN code /\ code[pc].op = "call"
    /\ pc' = pc + 1 /\ status' = "exec"

CallArgs == SubSeq(stack, Len(stack) - code[pc].n + 1, Len(stack))
Callee == stack[Len(stack) - code[pc].n]

\* the arguments of the call that are call nodes pending in the trace
InnerCalls ==
    {i \in DOMAIN CallArgs :
        /\ CallArgs[i].t = "ref"
        /\ heap[CallArgs[i].n].cls \in CallNodes
        /\ CallArgs[i].n \in DOMAIN pse}

\* the step from this state executes `key = value` and returns
StoreStep(key) ==
    /\ status = "exec" /\ pc \in DOMAIN code /\ code[pc].op = "store"
    /\ code[pc].arg = key /\ pc' = pc + 1 /\ status' = "exec"

\* the step from this state reads the name key and returns
LoadStep(key) ==
    /\ status = "exec" /\ pc \in DOMAIN code /\ code[pc].op = "name"
    /\ code[pc].arg = key /\ pc' = pc + 1 /\ status' = "exec"

\* the trace entries that assign the declared variable key
AssignmentsTo(r, key) ==
    {i \in DOMAIN r.evaluated :
        /\ IsInstance(r.heap, r.evaluated[i], "PELispVariableAssignment")
        /\ r.heap[r.evaluated[i].n].name = catalog.lisp_variables[key].lisp_name}

\* C1: when an effect-tracked callable is called with a pending call node
\* as an argument, the call leaves exactly one trace entry for the pair, the
\* outer call node holding the inner one as an argument, and the inner node
\* occupies no slot of its own
C1_SingleEmission ==
    [][CallStep /\ Callee.t = "fn" /\ Watched(Callee) =>
          \A i \in InnerCalls :
             LET inner == CallArgs[i]
                 outer == stack'[Len(stack')]
             IN /\ outer.t = "ref"
                /\ outer # inner
                /\ heap'[outer.n].cls \in CallNodes
                /\ \E j \in DOMAIN heap'[outer.n].args : heap'[outer.n].args[j] = inner
                /\ Cardinality(Slots(evaluated', outer)) = 1
                /\ Slots(evaluated', inner) = {}]_vars

\* C2: a default that is set never changes, and an assignment to a declared
\* variable that has a default appends one assignment node for that
\* variable, holding the assigned value, to the trace
C2_DefaultWrittenOnce ==
    [][\A key \in DOMAIN init_value :
          init_value[key] # NoneV =>
             /\ init_value'[key] = init_value[key]
             /\ StoreStep(key) =>
                   /\ Len(evaluated') = Len(evaluated) + 1
                   /\ AssignmentsTo(Cur, key)' = AssignmentsTo(Cur, key) \cup {Len(evaluated')}
                   /\ heap'[evaluated'[Len(evaluated')].n].args[1] = stack[Len(stack)]]_vars

\* a later routine assigned a literal to a variable whose default an earlier
\* routine set: the default is the earlier one and the trace has the node
C2_Witness ==
    /\ Len(initializations) = 1
    /\ init_value["Vfoo"] = IntV(42)
    /\ transpiled = <<Line(0, <<"Vfoo", "=", "42">>)>>
    /\ AssignmentsTo(Cur, "Vfoo") = {1}

\* the literal under a value the specification calls literal-foldable: a
\* native literal, t / nil, or a boxed integer, float or string constructor
\* applied to a literal; None for any other value
UnderlyingLiteral(h, v) ==
    IF v.t \in {"int", "float", "bool", "str"} THEN v
    ELSE IF IsInstance(h, v, "PELispSymbol") /\ h[v.n].args[1] \in {StrV("t"), StrV("nil")}
    THEN BoolV(h[v.n].args[1] = StrV("t"))
    ELSE IF IsInstance(h, v, "PECFunctionCall")
            /\ h[v.n].name \in {"make_fixnum", "make_int", "make_float", "make_string"}
            /\ h[v.n].args # <<>>
            /\ h[v.n].args[1].t \in {"int", "float", "str"}
    THEN h[v.n].args[1]
    ELSE NoneV

\* C3: assigning a literal, t / nil or a boxed literal to a declared variable
\* that has no default makes the underlying literal the default and appends
\* nothing to the trace
C3_WrapperFolds ==
    [][\A key \in DOMAIN init_value :
          (/\ StoreStep(key)
           /\ init_value[key] = NoneV
           /\ UnderlyingLiteral(heap, stack[Len(stack)]) # NoneV) =>
             /\ init_value'[key] = UnderlyingLiteral(heap, stack[Len(stack)])
             /\ Len(evaluated') = Len(evaluated)]_vars

\* C4: reading a declared variable that has a default yields the default
C4_ReadsCurrentValue ==
    [][\A key \in DOMAIN init_value :
          LoadStep(key) /\ init_value[key] # NoneV =>
             stack'[Len(stack')] = init_value[key]]_vars

\* the right-hand sides the specification calls literal-foldable
FoldableRhs == {<<"42">>, <<"make_fixnum", "(", "42", ")">>, <<"Qt">>}

\* the lines of the routine that assign key
AssignedBy(lines, key) ==
    {i \in DOMAIN lines : Len(lines[i].toks) > 2 /\ lines[i].toks[1] = key
                            /\ lines[i].toks[2] = "="}

\* C5: when the first routine has run and assigns a declared variable exactly
\* once, with a literal-foldable value, both runs hold the same default for
\* it and neither trace holds an assignment to it
C5_IdempotentDefaulting ==
    (status = "exec" /\ pc = Len(code) + 1 /\ initializations = <<>>) =>
        \A key \in DOMAIN init_value :
           (\E i \in DOMAIN transpiled :
               /\ AssignedBy(transpiled, key) = {i}
               /\ SubSeq(transpiled[i].toks, 3, Len(transpiled[i].toks)) \in FoldableRhs) =>
              /\ init_value[key] # NoneV
              /\ twin.ev.init_value[key] = init_value[key]
              /\ AssignmentsTo(Cur, key) = {}
              /\ AssignmentsTo(twin.ev, key) = {}

IsCallOf(s, n) ==
    /\ s.cls \in CallNodes
    /\ Len(s.args) = 1
    /\ s.args[1].cls = "literal"
    /\ s.args[1].lit = IntV(n)

\* C7: the loop routine never fails; its trace is the N calls f(0), ...,
\* f(N-1) in this order and nothing else; and the trace of the routine
\* unrolled by hand is the same trace
C7_LoopUnrolling ==
    /\ status # "error"
    /\ Len(initializations) >= 1 =>
          LET trace == initializations[1].statements
          IN /\ Len(trace) = catalog.constants["N"].n
             /\ \A i \in DOMAIN trace : IsCallOf(trace[i], i - 1)
    /\ Len(initializations) = 2 =>
          initializations[2].statements = initializations[1].statements

\* both routines have run for the largest N, and the trace has N entries
C7_Witness ==
    /\ Len(initializations) = 2
    /\ catalog.constants["N"].n = MaxN
    /\ initializations[1].name = "syms_of_loop"
    /\ Len(initializations[1].statements) = MaxN

\* the value of a C expression over i and arr, where arr[k] = k, and the
\* value of i after it: postfix forms yield the old i, prefix forms the new
RECURSIVE CValue(_, _)
CValue(node, i) ==
    LET k == node.kids
    IN CASE node.type = "identifier" -> [v |-> i, i |-> i]
         [] node.type = "number_literal" -> [v |-> Literals[node.text].n, i |-> i]
         [] node.type = "update_expression" ->
              LET prefix == k[1].text \in {"++", "--"}
                  operator == IF prefix THEN k[1].text ELSE k[2].text
                  after == IF operator = "++" THEN i + 1 ELSE i - 1
              IN [v |-> IF prefix THEN after ELSE i, i |-> after]
         [] node.type = "subscript_expression" -> CValue(k[3], i)
         [] node.type = "binary_expression" ->
              LET left == CValue(k[1], i)
                  right == CValue(k[3], left.i)
              IN [v |-> IF k[2].text = "*" THEN left.v * right.v ELSE left.v + right.v,
                  i |-> right.i]

\* the right-hand side and the initial i of the routine of SpecUpdate
UpdateForm == catalog.init_functions["syms_of_update"].kids[2].kids[5].kids[1].kids[3]
UpdateStart ==
    Literals[catalog.init_functions["syms_of_update"].kids[2].kids[3].kids[2].kids[3].text].n

\* C8: the normalized `x = <expression>` never fails, and when it has run,
\* x holds the value C gives the expression and i has changed by one
C8_UpdateCorrection ==
    /\ status # "error"
    /\ (status = "exec" /\ pc = Len(code) + 1) =>
          /\ dict["x"] = IntV(CValue(UpdateForm, UpdateStart).v)
          /\ dict["i"] = IntV(CValue(UpdateForm, UpdateStart).i)

\* the rule list of the routine of SpecReplace, and its statement before
\* any rule is applied
ReplaceRules == catalog.configs["syms_of_replace"].transpile_replaces
ReplaceStatement ==
    TranspileBlock(catalog.init_functions["syms_of_replace"], 0, <<>>).lines[2].toks

\* what rule does to a line it matches
Applied(rule, value) ==
    IF rule.delete THEN <<"#">> \o value ELSE Sub(rule.pattern, rule.sub, value)

\* C9: the normalized statement is the statement itself when no rule of the
\* list matches it, and else what the first rule that matches it makes of
\* it, whatever the rules after that one are
C9_OverridePrecedence ==
    replaces_stack # <<>> =>
        LET matching == {i \in DOMAIN ReplaceRules :
                            Matches(ReplaceRules[i].pattern, ReplaceStatement) # {}}
        IN transpiled[2].toks =
              IF matching = {} THEN ReplaceStatement
              ELSE Applied(ReplaceRules[SetMin(matching)], ReplaceStatement)

\* two rules match `Ffoo (42)`; the first one has been applied, and neither
\* the second nor a rule matching the result
C9_Witness ==
    /\ replaces_stack # <<>>
    /\ ReplaceRules = <<Rule(<<"Ffoo">>, <<"Fbar">>, FALSE), Rule(<<"42">>, <<>>, TRUE)>>
    /\ transpiled[2].toks = <<"Fbar", "(", "42", ")">>

\* whether a stage of name resolution knows key
KnownBy(stage, key) ==
    CASE stage = "constants" -> key \in DOMAIN catalog.constants
      [] stage = "lisp_symbols" -> key \in DOMAIN catalog.lisp_symbols
      [] stage = "c_variables" -> key \in catalog.c_variables
      [] stage = "lisp_functions" -> key \in DOMAIN catalog.lisp_functions
      [] stage = "void" -> key = "void"
      [] stage = "rewrite" -> key \in PE_UTIL_FUNCTIONS
      [] stage = "primitive" -> key \in PE_C_FUNCTIONS
      [] stage = "lisp_variables" -> key \in DOMAIN catalog.lisp_variables
      [] stage = "extra_globals" -> key \in DOMAIN extra_globals
      [] stage = "globals" -> key \in GlobalsKeys
      [] stage = "builtins" -> key \in Builtins

\* whether v, in the heap h, is what the stage yields for key
YieldedBy(stage, key, h, v) ==
    CASE stage = "constants" -> v = catalog.constants[key]
      [] stage = "lisp_symbols" ->
           IsInstance(h, v, "PELispSymbol") /\ h[v.n].args[1] = StrV(catalog.lisp_symbols[key])
      [] stage = "c_variables" -> IsInstance(h, v, "PECVariable") /\ h[v.n].name = key
      [] stage = "lisp_functions" -> v = Fn("lisp", key)
      [] stage = "void" -> v = Fn("void", key)
      [] stage = "rewrite" -> v = Fn("util", key)
      [] stage = "primitive" -> v = Fn("cfn", key)
      [] stage = "lisp_variables" ->
           LET var == catalog.lisp_variables[key]
           IN IF var.lisp_type = "BOOL" THEN v = BoolV(FALSE)
              ELSE IF var.lisp_type = "INT" THEN v = IntV(0)
              ELSE IsInstance(h, v, "PELispVariable") /\ h[v.n].name = var.lisp_name
      [] stage = "extra_globals" -> v = extra_globals[key]
      [] stage = "globals" -> v = IF key = "NULL" THEN IntV(0) ELSE Fn("global", key)
      [] stage = "builtins" -> v = Fn("builtin", key)

\* reading a name that is not bound locally yields what the first stage of
\* order that knows the name yields, and fails when no stage of order does
ResolutionFollows(order) ==
    (status = "exec" /\ pc \in DOMAIN code /\ code[pc].op = "name"
        /\ code[pc].arg \notin DOMAIN dict) =>
       LET key == code[pc].arg
           known == {i \in DOMAIN order : KnownBy(order[i], key)}
       IN IF known = {} THEN status' = "error"
          ELSE /\ status' = "exec"
               /\ YieldedBy(order[SetMin(known)], key, heap', stack'[Len(stack')])

\* C10, as stated: the seven stages in their order, and failure when all
\* seven miss
C10_SevenStages ==
    [][ResolutionFollows(<<"constants", "lisp_symbols", "c_variables", "lisp_functions",
                           "rewrite", "primitive", "lisp_variables",
                           "extra_globals">>)]_vars

\* C10, amended: the seven stages in their order, with the no-op `void`
\* between the catalogued callables and the helpers, then the evaluator's
\* built-in globals, then Python's builtins; failure when all of these miss
C10_AllStages ==
    [][ResolutionFollows(<<"constants", "lisp_symbols", "c_variables", "lisp_functions",
                           "void", "rewrite", "primitive", "lisp_variables",
                           "extra_globals", "globals", "builtins">>)]_vars

\* K is a named constant, a declared variable and an injected name at once,
\* and the read of K has yielded the constant
C10_Witness ==
    /\ {"K"} \subseteq DOMAIN catalog.constants \cap DOMAIN catalog.lisp_variables
                          \cap DOMAIN extra_globals
    /\ status = "exec"
    /\ pc = 3
    /\ stack = <<Fn("lisp", "Ffoo"), IntV(1)>>

(***************************************************************************)
(* Properties of failures, of assignments and of the driver.               *)
(***************************************************************************)
\* no stage of name resolution, local binding included, knows key
Unresolved(key) ==
    /\ key \notin DOMAIN dict
    /\ \A stage \in {"constants", "lisp_symbols", "c_variables", "lisp_functions", "void",
                     "rewrite", "primitive", "lisp_variables", "extra_globals", "globals",
                     "builtins"} : ~KnownBy(stage, key)

\* C11: reading a name that no stage knows ends the evaluation with an error
\* and appends no trace, and after an error nothing runs any more: no trace
\* for the failed routine, no later routine
C11_UnresolvedAborts ==
    [][/\ (status = "exec" /\ pc \in DOMAIN code /\ code[pc].op = "name"
            /\ Unresolved(code[pc].arg)) =>
              /\ status' = "error"
              /\ initializations' = initializations
              /\ twin'.initializations = twin.initializations
       /\ status # "error"]_vars

\* the second routine ran a statement, then read an unknown name: the output
\* holds the trace of the first routine only, although a call was evaluated
C11_Witness ==
    /\ status = "error"
    /\ Len(initializations) = 1
    /\ Len(transpiled) = 2
    /\ transpiled[2].toks = <<"undefined_name">>
    /\ evaluated # <<>>
    /\ Len(initializations) < Len(catalog.init_calls)

\* a Symbolic Value: an object of one of the value classes
Symbolic(v) == IsDataclass(heap, v)

\* C12: a loop header whose condition is a Symbolic Value ends the evaluation
\* with an error, so the body is not entered on it
C12_SymbolicConditionFails ==
    [][(status = "exec" /\ pc \in DOMAIN code /\ code[pc].op = "jf"
          /\ Symbolic(stack[Len(stack)])) => status' = "error"]_vars

\* the raw globals of the program: the program-global and the unit-local ones
RawGlobals == catalog.c_variables \cup catalog.static_variables

\* the trace has grown by one node: the assignment of the value on top of
\* the stack to the raw global key, flagged local or not
AppendsAssignment(key, local) ==
    /\ Len(evaluated') = Len(evaluated) + 1
    /\ LET s == evaluated'[Len(evaluated')]
       IN /\ IsInstance(heap', s, "PECVariableAssignment")
          /\ heap'[s.n].name = key
          /\ heap'[s.n].local = local
          /\ heap'[s.n].args[1] = stack[Len(stack)]

\* C13: every assignment to a raw global, program-global or unit-local, of
\* a literal or of a composite, appends a raw-global assignment node that is
\* not flagged function-local
C13_RawGlobalAssignment ==
    [][\A key \in RawGlobals : StoreStep(key) => AppendsAssignment(key, FALSE)]_vars

\* the names a routine may bind as locals
LocalNames == AssignTargets \ RawGlobals

\* a retained entry that assigns a native literal to a local
LiteralLocal(s) ==
    s.cls = "PECVariableAssignment" /\ s.local /\ s.args[1].cls = "literal"

\* C14: an assignment to a local name puts the name into the local
\* environment; it adds a node to the trace only if the value is a Symbolic
\* Value, and the node is then the assignment flagged function-local; no
\* Routine Trace holds a local assignment of a native literal
C14_LocalAssignment ==
    [][/\ \A key \in LocalNames :
             StoreStep(key) =>
                /\ key \in local_variables'
                /\ key \in DOMAIN dict'
                /\ Len(evaluated') > Len(evaluated) =>
                      Symbolic(stack[Len(stack)]) /\ AppendsAssignment(key, TRUE)
                /\ ~Symbolic(stack[Len(stack)]) => evaluated' = evaluated
       /\ \A i \in DOMAIN initializations' :
             \A j \in DOMAIN initializations'[i].statements :
                ~LiteralLocal(initializations'[i].statements[j])]_vars

\* the routine  x = 1; x = Ffoo (1);  has run: its trace is the one local
\* assignment of the call
C14_Witness ==
    /\ Len(initializations) = 1
    /\ \E i \in DOMAIN transpiled : transpiled[i].toks = <<"x", "=", "1">>
    /\ Len(initializations[1].statements) = 1
    /\ initializations[1].statements[1].cls = "PECVariableAssignment"
    /\ initializations[1].statements[1].name = "x"
    /\ initializations[1].statements[1].local
    /\ initializations[1].statements[1].args[1].cls \in CallNodes

\* the normalized text on hand is that of the routine of this name
Normalized(name) ==
    /\ transpiled # <<>>
    /\ transpiled[1].toks = <<"###", name, "###">>

\* C15: the two statements `Ffoo (1);` of syms_of_r, the one before the
\* call and the one after it, are each what the rule list of syms_of_r
\* makes of them
C15_PerRoutineRules ==
    Normalized("syms_of_r") =>
        LET lines == Physical(transpiled)
            own == TryReplace(ReplacesOf("syms_of_r"), <<"Ffoo", "(", "1", ")">>)
        IN /\ lines[2].toks = own
           /\ lines[Len(lines)].toks = own

\* the call statement of syms_of_r, and the lines syms_of_s is normalized to
\* on its own
CallOfCaller == catalog.init_functions["syms_of_r"].kids[2].kids[3].kids[1]
CalleeLines == Physical(TranspileToPython("syms_of_s").lines)

\* the Routine Trace of the routine, once it has been evaluated
TraceOf(name) ==
    LET i == CHOOSE i \in DOMAIN initializations : initializations[i].name = name
    IN initializations[i].statements

Evaluated(name) == \E i \in DOMAIN initializations : initializations[i].name = name

\* C16: in the normalized text of syms_of_r the call `syms_of_s ()` has
\* become the lines of syms_of_s, or the placeholder when syms_of_s is
\* hand-implemented, between the caller's own two lines; `syms_of_s (3)`
\* and `Fbar ()` are still the calls they were; and with no rules configured
\* the trace of syms_of_r has the callee's assignment between the caller's
\* two calls
C16_InlinedAtCallSite ==
    /\ Normalized("syms_of_r") =>
          LET lines == Physical(transpiled)
              n == Len(lines)
          IN IF CallOfCaller = CallNoArguments("syms_of_s")
             THEN IF "syms_of_s" \in catalog.ignored_functions
                  THEN n = 4 /\ lines[3].toks = Placeholder("syms_of_s")
                  ELSE /\ n = 3 + Len(CalleeLines)
                       /\ SelectSeq(SubSeq(lines, 3, n - 1), IsCode)
                             = SelectSeq(CalleeLines, IsCode)
             ELSE /\ n = 4
                  /\ lines[3].toks = TranspileExpression(CallOfCaller, 0, <<>>).text
                  /\ lines[3].toks \in {<<"syms_of_s", "(", "3", ")">>, <<"Fbar", "(", ")">>}
    /\ (/\ Evaluated("syms_of_r")
        /\ CallOfCaller = CallNoArguments("syms_of_s")
        /\ ReplacesOf("syms_of_r") = <<>> /\ ReplacesOf("syms_of_s") = <<>>) =>
          LET trace == TraceOf("syms_of_r")
          IN IF "syms_of_s" \in catalog.ignored_functions
             THEN Len(trace) = 2 /\ IsCallOf(trace[1], 1) /\ IsCallOf(trace[2], 1)
             ELSE /\ Len(trace) = 3
                  /\ IsCallOf(trace[1], 1)
                  /\ trace[2].cls = "PELispVariableAssignment"
                  /\ trace[2].name = "bar"
                  /\ IsCallOf(trace[2].args[1], 2)
                  /\ IsCallOf(trace[3], 1)

\* syms_of_r with the call `syms_of_s ()` has been evaluated under no rules
\* and syms_of_s is not hand-implemented
C16_Witness ==
    /\ Evaluated("syms_of_r")
    /\ CallOfCaller = CallNoArguments("syms_of_s")
    /\ ReplacesOf("syms_of_r") = <<>> /\ ReplacesOf("syms_of_s") = <<>>
    /\ catalog.ignored_functions = {}
    /\ Len(TraceOf("syms_of_r")) = 3

\* the code lines of the normalized text, and in them the header of the
\* loop on i and the header of the loop on j
ForText == SelectSeq(Physical(transpiled), IsCode)
HeaderOf(name) ==
    {h \in DOMAIN ForText :
        \/ ForText[h].toks = <<"while", "(", name, "<", "2", ")", ":">>
        \/ name = "i" /\ ForText[h].toks = <<"while", "True", ":">>}
ForHeader == CHOOSE h \in HeaderOf("i") : TRUE
ForNested == HeaderOf("j") # {}
ForBounded == ForText[ForHeader].toks # <<"while", "True", ":">>

\* C17: in the normalized text of syms_of_for the initializer comes before
\* the header of the loop, the body and then the update come after it and
\* inside the loop, whatever the form of the update and the depth; the text
\* is a program, and evaluating it runs the body for i = 0 and i = 1, once
\* for each turn of the loop around it
C17_ForNormalization ==
    /\ Normalized("syms_of_for") =>
          LET last == Len(ForText) - (IF ForNested THEN 2 ELSE 0)
          IN /\ Cardinality(HeaderOf("i")) = 1
             /\ \E a \in 1..(ForHeader - 1) : ForText[a].toks = <<"i", "=", "0">>
             /\ ForText[ForHeader + 1].toks = <<"Ffoo", "(", "i", ")">>
             /\ \A a \in (ForHeader + 1)..last :
                   ForText[a].indent = ForText[ForHeader].indent + 4
             /\ ForText[last].toks \in {<<"i", "-", "1">>, <<"i">>}
             /\ \E a \in (ForHeader + 2)..last :
                   ForText[a].toks \in {<<"i", "+=", "1">>, <<"i", "=", "i", "+", "1">>}
             /\ SyntaxOk(code)
             /\ ForBounded => status # "error"
    /\ Evaluated("syms_of_for") =>
          LET trace == TraceOf("syms_of_for")
          IN /\ Len(trace) = IF ForNested THEN 4 ELSE 2
             /\ \A a \in DOMAIN trace : IsCallOf(trace[a], (a - 1) % 2)

\* the second statement of syms_of_forms, and whether a node of the given
\* type is part of it
MiddleForm == catalog.init_functions["syms_of_forms"].kids[2].kids[3]

RECURSIVE Holds(_, _)
Holds(node, type) ==
    node.type = type \/ \E i \in DOMAIN node.kids : Holds(node.kids[i], type)

UnrecognizedForm ==
    \/ MiddleForm.type \in {"return_statement", "goto_statement", "do_statement"}
    \/ Holds(MiddleForm, "field_expression")

\* C18: when syms_of_forms holds a statement form or an expression form
\* without a case in the normalizer, its normalization ends with an
\* exception, and no line of a normalized text holds the form
C18_UnknownFormFails ==
    (replaces_stack # <<>> /\ UnrecognizedForm) =>
        /\ ~TranspileToPython("syms_of_forms").ok
        /\ status = "error"
        /\ \A i \in DOMAIN transpiled : \A j \in DOMAIN transpiled[i].toks :
              transpiled[i].toks[j] # "->"

\* the slots of the trace as the emitter would see them, empty ones included
TraceTrees ==
    [i \in DOMAIN evaluated |->
        IF evaluated[i] = NoneV THEN NoneV ELSE Tree(heap, evaluated[i])]

\* sub is what is left of full when some of its entries are dropped
RECURSIVE IsSubsequence(_, _)
IsSubsequence(sub, full) ==
    IF sub = <<>> THEN TRUE
    ELSE IF full = <<>> THEN FALSE
    ELSE IF Head(sub) = Head(full) THEN IsSubsequence(Tail(sub), Tail(full))
    ELSE IsSubsequence(sub, Tail(full))

LocalOnly(key) ==
    \A stage \in {"constants", "lisp_symbols", "c_variables", "lisp_functions", "void",
                   "rewrite", "primitive", "lisp_variables", "extra_globals", "globals",
                   "builtins"} : ~KnownBy(stage, key)

\* C20: no step changes the catalogs; the step that starts a routine leaves
\* no binding, no trace slot, no pending-effects entry and no object of the
\* routine before it and keeps the defaults of the declared variables; and
\* reading a name that nothing but a local binding could resolve, in a
\* routine that has not bound it, ends the evaluation with an error
C20_ResetFrame ==
    [][/\ catalog' = catalog
       /\ (status = "idle" /\ status' # "idle") =>
             /\ dict' = <<>>
             /\ local_variables' = {}
             /\ evaluated' = <<>>
             /\ pse' = <<>>
             /\ heap' = <<>>
             /\ init_value' = init_value
       /\ (/\ status = "exec" /\ pc \in DOMAIN code /\ code[pc].op = "name"
           /\ code[pc].arg \notin local_variables /\ LocalOnly(code[pc].arg)) =>
             status' = "error"]_vars

\* the first routine set the default of Vfoo and bound the local x; the
\* second one read x and failed
C20_Witness ==
    /\ Len(initializations) = 1
    /\ \E i \in DOMAIN initializations[1].statements :
          /\ initializations[1].statements[i].cls = "PECVariableAssignment"
          /\ initializations[1].statements[i].name = "x"
          /\ initializations[1].statements[i].local
    /\ init_value["Vfoo"] = IntV(42)
    /\ transpiled = <<Line(0, <<"Fbar", "(", "x", ")">>)>>
    /\ status = "error"
    /\ dict = <<>>

\* C21: a call of an effect-tracked callable empties no slot but those of
\* the very objects passed as its arguments, whatever other slots hold
\* nodes with the same fields, and a node it returns gets one slot of its
\* own at the end of the trace
C21_IdentityKeyed ==
    [][CallStep /\ Callee.t = "fn" /\ Watched(Callee) =>
          LET result == stack'[Len(stack')]
              consumed == {CallArgs[i] : i \in DOMAIN CallArgs}
          IN /\ \A i \in DOMAIN evaluated :
                   evaluated[i] \notin consumed => evaluated'[i] = evaluated[i]
             /\ IsDataclass(heap', result) =>
                   Slots(evaluated', result) = {Len(evaluated) + 1}]_vars

\* Ffoo (42); Ffoo (42); emacs_strerror (Ffoo (42)); two different nodes
\* with the same fields hold the first two slots, and the third node, with
\* the same fields again, was consumed and its slot alone is empty
C21_Witness ==
    /\ transpiled = <<Line(0, <<"Ffoo", "(", "42", ")">>),
                      Line(0, <<"Ffoo", "(", "42", ")">>),
                      Line(0, <<"emacs_strerror", "(", "Ffoo", "(", "42", ")", ")">>)>>
    /\ status = "exec" /\ pc = Len(code) + 1
    /\ Len(evaluated) = 3
    /\ evaluated[1] # evaluated[2]
    /\ IsDataclass(heap, evaluated[1]) /\ IsDataclass(heap, evaluated[2])
    /\ Tree(heap, evaluated[1]) = Tree(heap, evaluated[2])
    /\ evaluated[3] = NoneV

\* the classes of the nodes that stand for an assignment or a call
EffectNodes ==
    {"PELispVariableAssignment", "PECVariableAssignment", "PELispForm", "PECFunctionCall"}

\* C22: every entry of a Routine Trace is an assignment to a declared
\* variable or to a raw global, or a call node; no entry is a bare
\* reference to a symbol or a variable
C22_NoBareReference ==
    \A i \in DOMAIN initializations :
       \A j \in DOMAIN initializations[i].statements :
          initializations[i].statements[j].cls \in EffectNodes

\* C23: normalizing a routine enters no routine within itself: in a catalog
\* whose routines hold at most one call each, the step that normalizes a
\* routine pushes at most one rule list for each routine of the catalog
C23_CycleDetected ==
    [][status = "idle" /\ status' # "idle" =>
          Len(replaces_stack') - Len(replaces_stack)
             <= Cardinality(DOMAIN catalog.init_functions)]_vars

\* the arguments of the calls of a Routine Trace that holds calls with one
\* number as their argument
CallArguments(statements) == [k \in DOMAIN statements |-> statements[k].args[1].lit.n]

\* the arguments of Ffoo in the order in which C makes the calls of
\*     while (COND) { Ffoo (i); i = i + 1; }
\* entered with the value i: the side effect of COND happens at every test
RECURSIVE CLoop(_, _, _)
CLoop(form, i, n) ==
    CASE form = "plain" -> IF i < n THEN <<i>> \o CLoop(form, i + 1, n) ELSE <<>>
      [] form = "postfix" -> IF i < n THEN <<i + 1>> \o CLoop(form, i + 2, n) ELSE <<>>
      [] form = "assignment" -> IF i + 1 < n THEN <<i + 1>> \o CLoop(form, i + 2, n) ELSE <<>>

\* C24: a loop whose condition increments or assigns its variable makes the
\* calls that it makes in C, where the side effect of the condition happens
\* every time the condition is tested
C24_LoopCondition ==
    \A form \in DOMAIN LoopConditions(0), n \in 0..MaxN :
       (/\ Len(initializations) = 1
        /\ catalog.init_functions["syms_of_ops"] = WhileRoutine(form, n)) =>
          CallArguments(initializations[1].statements) = CLoop(form, 0, n)

\* the value of i after `i = a; i OP b;` in C
COperator(operator, a, b) ==
    CASE operator = "=" -> b
      [] operator = "+=" -> a + b
      [] operator = "-=" -> a - b
      [] operator = "*=" -> a * b

\* C25: after `i = a; i OP b;` the call Ffoo (i) is made with the value that
\* the operator OP gives: b for `=`, and a OP b for a compound assignment
C25_OperatorPreserved ==
    \A operator \in AssignmentOperators, a \in 0..MaxI, b \in 0..MaxI :
       (/\ Len(initializations) = 1
        /\ catalog.init_functions["syms_of_ops"] = OperatorRoutine(operator, a, b)) =>
          CallArguments(initializations[1].statements) = <<COperator(operator, a, b)>>

\* the trace holds the object v in a slot or inside the value of a slot
Traced(h, ev, v) == \E j \in DOMAIN ev : v.n \in RefsOf(h, ev[j])

\* C26: a call node that is pending in the trace when it is passed to an
\* effect-tracked callable is still in the trace after the call, in a slot
\* or inside the value of a slot
C26_EffectsConserved ==
    [][CallStep /\ Callee.t = "fn" /\ Watched(Callee) =>
          \A i \in InnerCalls : Traced(heap', evaluated', CallArgs[i])]_vars

\* C27: every entry of the pending-effects index points at a slot of the
\* trace that holds the object the entry is keyed by, no two entries point
\* at one slot, and no object is in two slots; and a slot that a step
\* empties was the slot of an index entry before the step and is the slot
\* of none after it
C27_IndexInvariant ==
    /\ [](/\ \A k \in DOMAIN pse : pse[k] \in DOMAIN evaluated /\ evaluated[pse[k]] = Ref(k)
          /\ \A k1, k2 \in DOMAIN pse : pse[k1] = pse[k2] => k1 = k2
          /\ \A i, j \in DOMAIN evaluated :
                evaluated[i] # NoneV /\ evaluated[i] = evaluated[j] => i = j)
    /\ [][status = "exec" /\ status' = "exec" =>
            \A i \in DOMAIN evaluated :
               evaluated[i] # NoneV /\ evaluated'[i] = NoneV =>
                  /\ evaluated[i].n \in DOMAIN pse
                  /\ pse[evaluated[i].n] = i
                  /\ \A k \in DOMAIN pse' : pse'[k] # i]_vars

\* XSYMBOL (intern ("s")) has run: the symbol that intern returned lost its
\* slot when it was passed on, and holds a new one, with a new index entry,
\* as the result of XSYMBOL
C27_Witness ==
    /\ Len(evaluated) = 2
    /\ evaluated[1] = NoneV
    /\ IsInstance(heap, evaluated[2], "PELispSymbol")
    /\ DOMAIN pse = {evaluated[2].n}
    /\ pse[evaluated[2].n] = 2
    /\ Len(transpiled) >= 2
    /\ transpiled[2].toks[1] = "XSYMBOL"

\* a Routine Trace that was returned assigns the declared variable key
AssignedBefore(key) ==
    \E i \in DOMAIN initializations : \E j \in DOMAIN initializations[i].statements :
       /\ initializations[i].statements[j].cls = "PELispVariableAssignment"
       /\ initializations[i].statements[j].name = catalog.lisp_variables[key].lisp_name

\* C28: an assignment to a declared variable sets its default only when no
\* trace holds an assignment to the variable yet; otherwise the last
\* assignment to the variable in the trace holds the value just assigned
C28_FinalValue ==
    [][\A key \in DOMAIN init_value :
          StoreStep(key) =>
             IF init_value'[key] # init_value[key]
             THEN AssignmentsTo(Cur, key) = {} /\ ~AssignedBefore(key)
             ELSE LET last == CHOOSE i \in AssignmentsTo(Cur, key)' :
                                 \A j \in AssignmentsTo(Cur, key)' : j <= i
                  IN /\ AssignmentsTo(Cur, key)' # {}
                     /\ heap'[evaluated'[last].n].args[1] = stack[Len(stack)]]_vars

\* the kind of name a value stands for when a read has yielded it
ReadKind(value) ==
    CASE value.cls = "PELispVariable" -> "declared variable"
      [] value.cls = "PECVariable" /\ ~value.local -> "raw global"
      [] value.cls = "PECVariable" /\ value.local -> "local"
      [] OTHER -> "none"

\* the kind of name a trace entry assigns
WriteKind(statement) ==
    CASE statement.cls = "PELispVariableAssignment" -> "declared variable"
      [] statement.cls = "PECVariableAssignment" /\ ~statement.local -> "raw global"
      [] statement.cls = "PECVariableAssignment" /\ statement.local -> "local"
      [] OTHER -> "none"

\* C29: in the trace of  Ffoo (K); K = E;  the argument of the first call,
\* which the read of the unassigned K yielded, stands for a name of the
\* kind that the entry for the assignment to K assigns
C29_SameKind ==
    Len(initializations) = 1 =>
       /\ Len(initializations[1].statements) = 2
       /\ ReadKind(initializations[1].statements[1].args[1])
             = WriteKind(initializations[1].statements[2])

\* C30: the lines of syms_of_s, overridden once when syms_of_s was
\* normalized, stand in the text of syms_of_r as that left them: the
\* statement that holds the call is not matched against the rules again
C30_OverriddenOnce ==
    (/\ Normalized("syms_of_r")
     /\ CallOfCaller = CallNoArguments("syms_of_s")
     /\ "syms_of_s" \notin catalog.ignored_functions) =>
        SubSeq(Physical(transpiled), 3, Len(Physical(transpiled)) - 1) = CalleeLines

====
